---------------------------- MODULE Spec2Model ----------------------------
(***************************************************************************)
(* Admission-and-dispatch core of the relay gateway: the subscription      *)
(* quota ledger (model/subscription_quota.go) and the quota admission      *)
(* controller (service/pre_consume_quota.go).                              *)
(*                                                                         *)
(* model/subscription_quota.go holds two revisions of the file; the model  *)
(* follows the first one (lines 1-413, fingerprint selection tokens).      *)
(***************************************************************************)
EXTENDS Integers, Sequences, FiniteSets, TLC

(***************************************************************************)
(* int64 timestamps.  TLC's integers are 32 bits wide and the code         *)
(* compares timestamps with 10^12, so a timestamp v is kept as the pair    *)
(* [hi, lo] with v = hi * 1000 + lo and 0 <= lo < 1000.  The operators     *)
(* below are exact for |v| < 2 * 10^12.                                    *)
(***************************************************************************)
W(n) == [hi |-> n \div 1000, lo |-> n % 1000]

WLt(a, b) == a.hi < b.hi \/ (a.hi = b.hi /\ a.lo < b.lo)

WLe(a, b) == a = b \/ WLt(a, b)

WGt(a, b) == WLt(b, a)

WAdd(a, b) == [hi |-> a.hi + b.hi + ((a.lo + b.lo) \div 1000), lo |-> (a.lo + b.lo) % 1000]

WSub(a, b) == [hi |-> a.hi - b.hi + ((a.lo - b.lo) \div 1000), lo |-> (a.lo - b.lo) % 1000]

\* a * k for a plain integer k >= 0
WMulInt(a, k) == [hi |-> a.hi * k + ((a.lo * k) \div 1000), lo |-> (a.lo * k) % 1000]

\* floor(d / i) for d >= 0 and i > 0; when i is a whole multiple of 1000 the
\* low digits of d do not change the quotient.
WDiv(d, i) ==
    IF i.lo = 0 THEN d.hi \div i.hi
    ELSE (d.hi * 1000 + d.lo) \div (i.hi * 1000 + i.lo)

\* 1_000_000_000_000, the milliseconds heuristic of nowInSameUnit
MsThreshold == [hi |-> 1000000000, lo |-> 0]

Interval5H == 5 * 60 * 60

Interval7D == 7 * 24 * 60 * 60

Min(a, b) == IF a < b THEN a ELSE b

(***************************************************************************)
(* Selection tokens.  common.Sha1 is taken to be injective on the strings  *)
(* it is given here, so the fingerprint is the tuple of the fields that    *)
(* are formatted into the hashed string.  A token "fp:<fp>|i:<index>" is   *)
(* the record [fp, i]; the hint index is 0-based as in the code.           *)
(***************************************************************************)
subscriptionItemFingerprint(item) ==
    << item.PlanName, item.PlanID, item.SubscriptionID, item.Owner,
       item.Duration.StartAt, item.Duration.EndAt >>

EmptyToken == [fp |-> << >>, i |-> -1]

encodeSubscriptionSelectionToken(item, index) ==
    [fp |-> subscriptionItemFingerprint(item), i |-> index]

\* [ok, fingerprint, hintIndex]; the empty string has no "fp:" prefix
parseSelectionToken(token) ==
    IF token = EmptyToken
    THEN [ok |-> FALSE, fingerprint |-> << >>, hintIndex |-> -1]
    ELSE [ok |-> TRUE, fingerprint |-> token.fp, hintIndex |-> token.i]

\* 0-based index of the first item with fingerprint fp, -1 if none
firstIndexByFingerprint(items, fp) ==
    LET hits == { i \in 1..Len(items) : subscriptionItemFingerprint(items[i]) = fp }
    IN IF hits = {} THEN -1
       ELSE (CHOOSE i \in hits : \A j \in hits : i <= j) - 1

\* [idx, ok], idx 0-based
findSubscriptionItemIndexByTokenHintUnchecked(items, token) ==
    LET p == parseSelectionToken(token)
    IN IF ~p.ok THEN [idx |-> -1, ok |-> FALSE]
       ELSE IF p.hintIndex >= 0 /\ p.hintIndex < Len(items)
            THEN [idx |-> p.hintIndex, ok |-> TRUE]
            ELSE LET i == firstIndexByFingerprint(items, p.fingerprint)
                 IN [idx |-> i, ok |-> i >= 0]

findSubscriptionItemIndexByToken(items, token) ==
    LET p == parseSelectionToken(token)
    IN IF ~p.ok THEN [idx |-> -1, ok |-> FALSE]
       ELSE IF /\ p.hintIndex >= 0
               /\ p.hintIndex < Len(items)
               /\ subscriptionItemFingerprint(items[p.hintIndex + 1]) = p.fingerprint
            THEN [idx |-> p.hintIndex, ok |-> TRUE]
            ELSE LET i == firstIndexByFingerprint(items, p.fingerprint)
                 IN [idx |-> i, ok |-> i >= 0]

(***************************************************************************)
(* Time windows                                                            *)
(***************************************************************************)
nowInSameUnitSecondsOnly(referenceTimestamp, nowSec) == W(nowSec)

nowInSameUnit(referenceTimestamp, nowSec) ==
    IF WGt(referenceTimestamp, MsThreshold)
    THEN [hi |-> nowSec, lo |-> 0]
    ELSE W(nowSec)

durationContainsOpenEnded(duration, nowSec) ==
    IF duration.StartAt # W(0) /\ WLt(nowInSameUnit(duration.StartAt, nowSec), duration.StartAt)
    THEN FALSE
    ELSE IF duration.EndAt # W(0) /\ WGt(nowInSameUnit(duration.EndAt, nowSec), duration.EndAt)
    THEN FALSE
    ELSE TRUE

durationContains(duration, nowSec) ==
    IF duration.StartAt = W(0) \/ duration.EndAt = W(0) THEN FALSE
    ELSE IF WLt(nowInSameUnit(duration.StartAt, nowSec), duration.StartAt) THEN FALSE
    ELSE IF WGt(nowInSameUnit(duration.EndAt, nowSec), duration.EndAt) THEN FALSE
    ELSE TRUE

isUsableSubscriptionItemOneWindow(item, nowSec, amount) ==
    IF item.Status # "deployed" THEN FALSE
    ELSE IF item.Limit5H.Available <= 0 \/ item.Limit7D.Available <= 0 THEN FALSE
    ELSE IF amount > 0 /\ item.Limit5H.Available < amount THEN FALSE
    ELSE durationContains(item.Duration, nowSec)

isUsableSubscriptionItem(item, nowSec, amount) ==
    IF item.Status # "deployed" THEN FALSE
    ELSE IF item.Limit5H.Available <= 0 \/ item.Limit7D.Available <= 0 THEN FALSE
    ELSE IF amount > 0 /\ (item.Limit5H.Available < amount \/ item.Limit7D.Available < amount)
         THEN FALSE
    ELSE durationContains(item.Duration, nowSec)

advanceResetAtCeil(resetAt, nowSec, intervalSec) ==
    IF intervalSec <= 0 THEN resetAt
    ELSE LET now == nowInSameUnit(resetAt, nowSec)
             interval == IF WGt(resetAt, MsThreshold)
                         THEN [hi |-> intervalSec, lo |-> 0]
                         ELSE W(intervalSec)
         IN IF WLe(resetAt, W(0)) THEN WAdd(now, interval)
            ELSE IF WLe(now, resetAt) THEN resetAt
            ELSE LET d == WSub(now, resetAt)
                     q == WDiv(d, interval)
                     periods == IF WMulInt(interval, q) = d THEN q ELSE q + 1
                 IN WAdd(resetAt, WMulInt(interval, periods))

advanceResetAt(resetAt, nowSec, intervalSec) ==
    IF intervalSec <= 0 THEN resetAt
    ELSE LET now == nowInSameUnit(resetAt, nowSec)
             interval == IF WGt(resetAt, MsThreshold)
                         THEN [hi |-> intervalSec, lo |-> 0]
                         ELSE W(intervalSec)
         IN IF WLe(resetAt, W(0)) THEN WAdd(now, interval)
            ELSE IF WLe(now, resetAt) THEN resetAt
            ELSE LET periods == WDiv(WSub(now, resetAt), interval) + 1
                 IN WAdd(resetAt, WMulInt(interval, periods))

resetLimitInclusive(limit, nowSec, intervalSec) ==
    IF WLe(limit.ResetAt, nowInSameUnit(limit.ResetAt, nowSec))
    THEN LET newResetAt == advanceResetAt(limit.ResetAt, nowSec, intervalSec)
         IN [limit |-> [Total |-> limit.Total, Available |-> limit.Total, ResetAt |-> newResetAt],
             changed |-> limit.Available # limit.Total \/ newResetAt # limit.ResetAt]
    ELSE [limit |-> limit, changed |-> FALSE]

\* one window of resetAndPruneSubscriptionData's loop body: [limit, changed]
resetLimit(limit, nowSec, intervalSec) ==
    IF WGt(nowInSameUnit(limit.ResetAt, nowSec), limit.ResetAt)
    THEN LET newResetAt == advanceResetAt(limit.ResetAt, nowSec, intervalSec)
         IN [limit |-> [Total |-> limit.Total, Available |-> limit.Total, ResetAt |-> newResetAt],
             changed |-> limit.Available # limit.Total \/ newResetAt # limit.ResetAt]
    ELSE [limit |-> limit, changed |-> FALSE]

RECURSIVE resetAndPruneFromKeepUndeployed(_, _, _, _)
resetAndPruneFromKeepUndeployed(items, nowSec, k, acc) ==
    IF k > Len(items) THEN acc
    ELSE LET item == items[k]
         IN IF item.Status = "disabled"
            THEN resetAndPruneFromKeepUndeployed(items, nowSec, k + 1,
                                   [items |-> acc.items, changed |-> TRUE])
            ELSE LET r5 == resetLimit(item.Limit5H, nowSec, Interval5H)
                     r7 == resetLimit(item.Limit7D, nowSec, Interval7D)
                     kept == [item EXCEPT !.Limit5H = r5.limit, !.Limit7D = r7.limit]
                 IN resetAndPruneFromKeepUndeployed(items, nowSec, k + 1,
                        [items |-> Append(acc.items, kept),
                         changed |-> acc.changed \/ r5.changed \/ r7.changed])

\* the loop of resetAndPruneSubscriptionData over items[k..], given the
\* result acc = [items, changed] of the iterations before k
RECURSIVE resetAndPruneFrom(_, _, _, _)
resetAndPruneFrom(items, nowSec, k, acc) ==
    IF k > Len(items) THEN acc
    ELSE LET item == items[k]
         IN IF item.Status # "deployed"
            THEN resetAndPruneFrom(items, nowSec, k + 1,
                                   [items |-> acc.items, changed |-> TRUE])
            ELSE LET r5 == resetLimit(item.Limit5H, nowSec, Interval5H)
                     r7 == resetLimit(item.Limit7D, nowSec, Interval7D)
                     kept == [item EXCEPT !.Limit5H = r5.limit, !.Limit7D = r7.limit]
                 IN resetAndPruneFrom(items, nowSec, k + 1,
                        [items |-> Append(acc.items, kept),
                         changed |-> acc.changed \/ r5.changed \/ r7.changed])

\* [items, changed]
resetAndPruneSubscriptionData(items, nowSec) ==
    IF Len(items) = 0 THEN [items |-> items, changed |-> FALSE]
    ELSE LET r == resetAndPruneFrom(items, nowSec, 1, [items |-> << >>, changed |-> FALSE])
         IN [items |-> r.items, changed |-> r.changed \/ Len(r.items) # Len(items)]

(***************************************************************************)
(* Ledger operations on one user's document                                *)
(***************************************************************************)
ErrSubscriptionQuotaExhausted == "SUBSCRIPTION_QUOTA_EXHAUSTED"

ErrItemNotFound == "subscription item not found for token"

\* 1-based position of the first usable item, 0 if none
firstUsableIndex(items, nowSec, amount) ==
    LET usable == { i \in 1..Len(items) : isUsableSubscriptionItem(items[i], nowSec, amount) }
    IN IF usable = {} THEN 0 ELSE CHOOSE i \in usable : \A j \in usable : i <= j

lastUsableIndex(items, nowSec, amount) ==
    LET usable == { i \in 1..Len(items) : isUsableSubscriptionItem(items[i], nowSec, amount) }
    IN IF usable = {} THEN 0 ELSE CHOOSE i \in usable : \A j \in usable : i >= j

debitItem(item, amount) ==
    IF amount > 0
    THEN [item EXCEPT !.Limit5H.Available = @ - amount, !.Limit7D.Available = @ - amount]
    ELSE item

\* [items, token, ok]
consumeSubscriptionQuotaFromLastUsableItem(items, nowSec, amount) ==
    IF amount < 0 THEN [items |-> items, token |-> EmptyToken, ok |-> FALSE]
    ELSE LET i == lastUsableIndex(items, nowSec, amount)
         IN IF i = 0 THEN [items |-> items, token |-> EmptyToken, ok |-> FALSE]
            ELSE LET updated == [items EXCEPT ![i] = debitItem(items[i], amount)]
                 IN [items |-> updated,
                     token |-> encodeSubscriptionSelectionToken(updated[i], i - 1),
                     ok |-> TRUE]

consumeSubscriptionQuotaFromFirstUsableItem(items, nowSec, amount) ==
    IF amount < 0 THEN [items |-> items, token |-> EmptyToken, ok |-> FALSE]
    ELSE LET i == firstUsableIndex(items, nowSec, amount)
         IN IF i = 0 THEN [items |-> items, token |-> EmptyToken, ok |-> FALSE]
            ELSE LET updated == [items EXCEPT ![i] = debitItem(items[i], amount)]
                 IN [items |-> updated,
                     token |-> encodeSubscriptionSelectionToken(updated[i], i - 1),
                     ok |-> TRUE]

\* Body of the transaction of PreConsumeUserSubscriptionQuota on the document
\* read under the row lock: [err, token, write, items]; items is the document
\* persisted when write is TRUE.
PreConsumeTx(items, nowSec, amount) ==
    LET rp == resetAndPruneSubscriptionData(items, nowSec)
        c  == consumeSubscriptionQuotaFromFirstUsableItem(rp.items, nowSec, amount)
    IN IF ~c.ok
       THEN [err |-> ErrSubscriptionQuotaExhausted, token |-> EmptyToken,
             write |-> FALSE, items |-> items]
       ELSE [err |-> "nil", token |-> c.token,
             write |-> rp.changed \/ amount > 0, items |-> c.items]

\* the refund branch of AdjustUserSubscriptionQuotaBySelectionToken (delta < 0)
clipAtTotalNever(available, total) == available

clipAtTotalAlways(available, total) == total

clipAtTotal(available, total) == IF available > total THEN total ELSE available

\* the check of the extra-consumption branch (delta > 0)
wouldGoNegativeNever(new5h, new7d) == FALSE

wouldGoNegative5HOnly(new5h, new7d) == new5h < 0

wouldGoNegative(new5h, new7d) == new5h < 0 \/ new7d < 0

AdjustTxPruning(items, selectionToken, delta) ==
    LET f == findSubscriptionItemIndexByToken(items, selectionToken)
    IN IF ~f.ok THEN [err |-> ErrItemNotFound, write |-> FALSE, items |-> items]
       ELSE LET item  == items[f.idx + 1]
                new5h == item.Limit5H.Available - delta
                new7d == item.Limit7D.Available - delta
            IN IF delta > 0 /\ wouldGoNegative(new5h, new7d)
               THEN [err |-> ErrSubscriptionQuotaExhausted, write |-> FALSE, items |-> items]
               ELSE LET c5h == IF delta < 0 THEN clipAtTotal(new5h, item.Limit5H.Total) ELSE new5h
                        c7d == IF delta < 0 THEN clipAtTotal(new7d, item.Limit7D.Total) ELSE new7d
                    IN [err |-> "nil", write |-> TRUE,
                        items |-> SelectSeq([items EXCEPT ![f.idx + 1].Limit5H.Available = c5h,
                                                           ![f.idx + 1].Limit7D.Available = c7d],
                                            LAMBDA it : it.Status = "deployed")]

\* Body of the transaction of AdjustUserSubscriptionQuotaBySelectionToken
\* (delta # 0, token not empty): [err, write, items]
AdjustTx(items, selectionToken, delta) ==
    LET f == findSubscriptionItemIndexByToken(items, selectionToken)
    IN IF ~f.ok THEN [err |-> ErrItemNotFound, write |-> FALSE, items |-> items]
       ELSE LET item  == items[f.idx + 1]
                new5h == item.Limit5H.Available - delta
                new7d == item.Limit7D.Available - delta
            IN IF delta > 0 /\ wouldGoNegative(new5h, new7d)
               THEN [err |-> ErrSubscriptionQuotaExhausted, write |-> FALSE, items |-> items]
               ELSE LET c5h == IF delta < 0 THEN clipAtTotal(new5h, item.Limit5H.Total) ELSE new5h
                        c7d == IF delta < 0 THEN clipAtTotal(new7d, item.Limit7D.Total) ELSE new7d
                    IN [err |-> "nil", write |-> TRUE,
                        items |-> [items EXCEPT ![f.idx + 1].Limit5H.Available = c5h,
                                                ![f.idx + 1].Limit7D.Available = c7d]]

\* Body of the per-user transaction of ResetSubscriptionQuotaForAllUsers
SweepTx(items, nowSec) ==
    LET rp == resetAndPruneSubscriptionData(items, nowSec)
    IN [err |-> "nil", write |-> rp.changed, items |-> IF rp.changed THEN rp.items ELSE items]

\* PreConsumeUserSubscriptionQuota on the stored document items:
\* [err, token, write, items]
PreConsumeUserSubscriptionQuota(items, userID, nowSec, amount) ==
    IF userID <= 0
    THEN [err |-> "invalid userID", token |-> EmptyToken, write |-> FALSE, items |-> items]
    ELSE IF amount < 0
    THEN [err |-> "invalid amount", token |-> EmptyToken, write |-> FALSE, items |-> items]
    ELSE PreConsumeTx(items, nowSec, amount)

\* The revision of the ledger the middleware is written against (its debit
\* has no reset, no prune and no selection token): an item is usable for a
\* positive amount that both windows hold
isUsableSubscriptionItemForAmount(item, nowSec, amount) ==
    IF item.Status # "deployed" THEN FALSE
    ELSE IF amount <= 0 THEN FALSE
    ELSE IF item.Limit5H.Available < amount \/ item.Limit7D.Available < amount THEN FALSE
    ELSE durationContains(item.Duration, nowSec)

\* [items, ok]
consumeFirstUsableSubscriptionItem(items, nowSec, amount) ==
    IF amount <= 0 THEN [items |-> items, ok |-> FALSE]
    ELSE LET usable == { i \in 1..Len(items) :
                           isUsableSubscriptionItemForAmount(items[i], nowSec, amount) }
         IN IF usable = {} THEN [items |-> items, ok |-> FALSE]
            ELSE LET i == CHOOSE k \in usable : \A j \in usable : k <= j
                 IN [items |-> [items EXCEPT ![i].Limit5H.Available = @ - amount,
                                             ![i].Limit7D.Available = @ - amount],
                     ok |-> TRUE]

\* ConsumeUserSubscriptionQuota on the stored document items:
\* [err, token, write, items]
ConsumeUserSubscriptionQuota(items, userID, nowSec, amount) ==
    IF userID <= 0
    THEN [err |-> "invalid userID", token |-> EmptyToken, write |-> FALSE, items |-> items]
    ELSE IF amount <= 0
    THEN [err |-> "invalid amount", token |-> EmptyToken, write |-> FALSE, items |-> items]
    ELSE LET c == consumeFirstUsableSubscriptionItem(items, nowSec, amount)
         IN IF ~c.ok
            THEN [err |-> ErrSubscriptionQuotaExhausted, token |-> EmptyToken,
                  write |-> FALSE, items |-> items]
            ELSE [err |-> "nil", token |-> EmptyToken, write |-> TRUE, items |-> c.items]

\* AdjustUserSubscriptionQuotaBySelectionToken on the stored document items:
\* [err, write, items]
AdjustUserSubscriptionQuotaBySelectionToken(items, userID, selectionToken, delta) ==
    IF userID <= 0
    THEN [err |-> "invalid userID", write |-> FALSE, items |-> items]
    ELSE IF selectionToken = EmptyToken
    THEN [err |-> "empty selectionToken", write |-> FALSE, items |-> items]
    ELSE IF delta = 0
    THEN [err |-> "nil", write |-> FALSE, items |-> items]
    ELSE AdjustTx(items, selectionToken, delta)

(***************************************************************************)
(* The ledger as a state machine: one subscription user, request contexts  *)
(* that reserve and reconcile, the task pool that runs the asynchronous    *)
(* reversals, the background reset sweep, the clock and the external       *)
(* billing process that owns the document.                                 *)
(*                                                                         *)
(* Spec runs every ledger call as one step (its transaction holds the      *)
(* user's row lock from its read to its commit).  SpecLock splits a call   *)
(* into its start, its locking read and its commit, and runs the calls on  *)
(* concurrent goroutines.  SpecReset applies resetAndPruneSubscriptionData *)
(* to documents drawn from a bounded set.                                  *)
(***************************************************************************)
VARIABLES
    doc,      \* users.subscription_data of the user, a sequence of items
    now,      \* wall clock, seconds
    ctx,      \* per request: the gin context key and the RelayInfo fields
    pool,     \* gopool: per request, the selection tokens captured by queued reversal tasks
    billing,  \* writes of the billing process so far
    last,     \* the last completed ledger call (history variable)
    lock,     \* SpecLock: holder of the user's row lock, or "none"
    th,       \* SpecLock: per goroutine, the ledger call it is executing
    serial,   \* SpecLock: the document obtained by running each transaction atomically at its commit
    pin,      \* SpecReset: the input, [items, nowSec]
    pout,     \* SpecReset: the result, [items, changed], or NoResult
    wallet,   \* the user's wallet balance, the token's counter, the trust threshold
              \* and the queued wallet reversal tasks
    sel,      \* SpecSelect: the running selectChannelWithTemporarySkip
    registry, \* SpecSelect: temporaryDisabledChannels, per channel id
    auto,     \* SpecAuto: the running CacheGetRandomSatisfiedChannel
    probe,    \* SpecRegistry: the last call of the registry and what it returned
    mod       \* SpecModeration: the running EnforceChatModeration

vars == << doc, now, ctx, pool, billing, last, lock, th, serial, pin, pout, wallet, sel, registry,
          auto, probe, mod >>

MaxAmount == 2

MaxReturns == 2

MaxBilling == 1

Ctx == {"c1", "c2"}

\* the requests followed to their return; in SpecLock the other request
\* reserves concurrently
Followed == {"c1"}

Pool == {"g1"}

Sweeper == "sweep"

Threads == Ctx \cup Pool \cup {Sweeper}

Instants == {1000, 2000}

Amounts == -1..MaxAmount

Deltas == -MaxAmount..MaxAmount

Limit(total, available, resetAt) ==
    [Total |-> total, Available |-> available, ResetAt |-> resetAt]

Item(sid, status, l5, l7, startAt, endAt) ==
    [PlanName |-> "pro", PlanID |-> "p1", SubscriptionID |-> sid, Owner |-> 1,
     Limit5H |-> l5, Limit7D |-> l7,
     Duration |-> [StartAt |-> startAt, EndAt |-> endAt],
     Status |-> status]

\* Documents the billing process may have written before the run starts:
\* subscription ids are unique within a document, 0 <= available <= total.
InitDocs ==
    { << Item("s1", "deployed", Limit(2, 2, W(1500)), Limit(3, 1, W(50000)), W(500), W(90000)),
         Item("s2", "deployed", Limit(2, 2, W(1500)), Limit(2, 2, W(50000)), W(500), W(90000)),
         Item("s3", "deployed", Limit(3, 3, W(50000)), Limit(3, 3, W(50000)), W(500), W(30000)) >>,
      << Item("s4", "deploying", Limit(2, 2, W(1500)), Limit(2, 2, W(50000)), W(500), W(90000)),
         Item("s2", "deployed", Limit(2, 1, W(1500)), Limit(2, 2, W(50000)), W(500), W(90000)),
         Item("s3", "deployed", Limit(3, 3, W(50000)), Limit(3, 3, W(50000)), W(500), W(90000)) >> }

\* relayconstant.RelayModeResponses
RelayModeResponses == "responses"

\* a nil *RelayInfo
NilRelayInfo == [nil |-> TRUE]

ShouldUseSubscriptionQuotaGroupOnly(relayInfo) ==
    IF relayInfo = NilRelayInfo THEN FALSE
    ELSE relayInfo.UserGroup = "subscription"

ShouldUseSubscriptionQuota(relayInfo) ==
    IF relayInfo = NilRelayInfo THEN FALSE
    ELSE IF relayInfo.UserGroup # "subscription" THEN FALSE
    ELSE IF relayInfo.IsClaudeBetaQuery THEN TRUE
    ELSE relayInfo.RelayMode = RelayModeResponses

\* *types.NewAPIError: error code, HTTP status, ErrOptionWithSkipRetry,
\* ErrOptionWithNoRecordErrorLog
ApiError(code, status, skipRetry, noRecordErrorLog) ==
    [code |-> code, status |-> status, skipRetry |-> skipRetry,
     noRecordErrorLog |-> noRecordErrorLog]

NoApiError == ApiError("nil", 0, FALSE, FALSE)

ErrSubscriptionExhausted403 == ApiError("subscription_quota_exhausted", 403, TRUE, TRUE)

ErrUpdateData500 == ApiError("update_data_error", 500, TRUE, FALSE)

ErrQueryData500 == ApiError("query_data_error", 500, TRUE, FALSE)

ErrInsufficientUserQuota403 == ApiError("insufficient_user_quota", 403, TRUE, TRUE)

ErrPreConsumeTokenQuotaFailed403 == ApiError("pre_consume_token_quota_failed", 403, TRUE, TRUE)

\* history: what the request's PreConsumeQuota was given and did
NoAdmission ==
    [path |-> "none", requested |-> 0, fault |-> "none",
     UserQuota |-> 0, TokenQuota |-> 0, amount |-> 0, debitedUser |-> 0, debitedToken |-> 0]

NewCtx ==
    [UserId |-> 1, UserGroup |-> "subscription", IsClaudeBetaQuery |-> FALSE,
     RelayMode |-> RelayModeResponses, TokenUnlimited |-> FALSE,
     apiErr |-> NoApiError,
     \* history: PreConsumeQuota's inputs and debits, the path of the last Return
     admission |-> NoAdmission, retPath |-> "none",
     stage |-> "new", token |-> EmptyToken, FinalPreConsumedQuota |-> 0,
     returns |-> 0, settled |-> FALSE,
     \* history: the item PreConsume selected and its available before the debit
     selected |-> "none", before5h |-> 0, before7d |-> 0,
     \* history: no ledger call completed since this request's PreConsume
     fresh |-> FALSE,
     \* history: reversals of this request's reservation applied to the ledger
     reversals |-> 0,
     \* the subscription middleware of the route has let the request through
     enforced |-> FALSE]

IdleThread ==
    [pc |-> "idle", op |-> "none", nowSec |-> 0, amount |-> 0,
     token |-> EmptyToken, snap |-> << >>, ctx |-> "none", reversal |-> FALSE]

NoCall ==
    [op |-> "none", ctx |-> "none", nowSec |-> 0, amount |-> 0, token |-> EmptyToken,
     pre |-> << >>, post |-> << >>, err |-> "nil", fresh |-> FALSE]

NoResult == [items |-> << >>, changed |-> FALSE, applied |-> FALSE]

\* fresh: the call is the first ledger call since the PreConsume of its request
Call(op, c, nowSec, amount, token, pre, post, err, fresh) ==
    [op |-> op, ctx |-> c, nowSec |-> nowSec, amount |-> amount, token |-> token,
     pre |-> pre, post |-> post, err |-> err, fresh |-> fresh]

\* the requests' fields cs after a ledger call completed: no reservation is
\* the latest call any more
Stale(cs) == [c \in DOMAIN cs |-> [cs[c] EXCEPT !.fresh = FALSE]]

\* what a transaction leaves in the row: r is the result of a ledger call
Persist(current, r) == IF r.write THEN r.items ELSE current

LedgerInit ==
    /\ doc \in InitDocs
    /\ now = 1000
    /\ ctx = [c \in Ctx |-> NewCtx]
    /\ pool = [c \in Ctx |-> << >>]
    /\ billing = 0
    /\ last = NoCall
    /\ lock = "none"
    /\ th = [t \in Threads |-> IdleThread]
    /\ serial = doc

NumChannels == 9

\* channel ids; NilChannel is a nil *model.Channel
Channels == 1..NumChannels
NilChannel == 0

\* an entry of temporaryDisabledChannels, and the absence of one
\* (the reason is kept by its length in bytes)
DisabledEntry(expireAt, reasonLen) ==
    [present |-> TRUE, expireAt |-> expireAt, reasonLen |-> reasonLen]
DisabledUntil(expireAt) == DisabledEntry(expireAt, 0)
NoEntry == [present |-> FALSE, expireAt |-> 0, reasonLen |-> 0]
NoRegistry == [id \in Channels |-> NoEntry]

maxTemporaryDisableSelectionAttempts == 8
errAllCandidateChannelsTemporarilyDisabled == "all candidate channels are temporarily disabled"
ErrAllCandidateChannelsFiltered == "all candidate channels filtered"

\* the satisfier has not answered yet
NoAnswer == [channel |-> NilChannel, err |-> "not called"]

\* selectChannelWithTemporarySkip on entry: attempts, excluded, and the
\* history of the call (calls of the satisfier, whether every channel it
\* returned was reported disabled, the satisfier's last answer and the
\* exclusion set it was given, the ids the registry reported disabled)
NewSel ==
    [pc |-> "loop", attempts |-> 0, excluded |-> {}, channel |-> NilChannel, err |-> "nil",
     calls |-> 0, allDisabled |-> TRUE,
     answer |-> NoAnswer, given |-> {}, found |-> {}]
NoSel == [NewSel EXCEPT !.pc = "idle"]

\* CacheGetRandomSatisfiedChannel, the registry and EnforceChatModeration
\* before any call
NoAuto == [pc |-> "idle"]
NoProbe ==
    [op |-> "none", channelID |-> 0, duration |-> 0, nowSec |-> 0, entry |-> NoEntry, ok |-> FALSE,
     expireAt |-> 0, cleanupStarted |-> FALSE, pending |-> 0,
     \* history: how the call held temporaryDisabledChannelsMu, the cleanup
     \* goroutines started so far, the ids the last cleanup deleted
     mu |-> "none", loops |-> 0, swept |-> {},
     \* the locals of the goroutines that are inside a call: the entry each
     \* TemporarilyDisableChannel is about to write, the copy the reader
     \* took under the read lock and whether it found it expired, the clock
     \* reading of the tick that has not swept yet
     writes |-> << >>, copy |-> NoEntry, deleting |-> FALSE, tick |-> 0, disables |-> 0]
NoMod == [pc |-> "idle"]

NoWallet ==
    [UserQuota |-> 0, TokenQuota |-> 0, TrustQuota |-> 0, tasks |-> 0,
     \* SelfQuotaTakeAway: the amount of the call that has read the balance
     \* and not debited yet, the calls so far
     take |-> 0, takes |-> 0,
     \* the values the token's counter has had: "token_quota" in the gin
     \* context of a request is the one it had when the request was authenticated
     seen |-> {0}]

Init ==
    /\ LedgerInit
    /\ wallet = NoWallet
    /\ sel = NoSel
    /\ registry = NoRegistry
    /\ auto = NoAuto
    /\ probe = NoProbe
    /\ mod = NoMod
    /\ pin = [items |-> << >>, nowSec |-> 0]
    /\ pout = NoResult

\* time.Now().Unix() advances
Tick ==
    /\ \E t \in Instants : t > now /\ now' = t
    /\ UNCHANGED << doc, ctx, pool, billing, last, lock, th, serial, pin, pout, wallet, sel, registry, auto, probe, mod >>

AfterPreConsumeAlwaysForbidden(c, r, before, preConsumedQuota) ==
    IF r.err = "nil"
    THEN [Stale(ctx) EXCEPT ![c].stage = "reserved",
                     ![c].admission = [NoAdmission EXCEPT !.path = "subscription",
                                                          !.requested = preConsumedQuota],
                     ![c].fresh = TRUE,
                     ![c].token = r.token,
                     ![c].FinalPreConsumedQuota = preConsumedQuota,
                     ![c].selected = before[r.token.i + 1].SubscriptionID,
                     ![c].before5h = before[r.token.i + 1].Limit5H.Available,
                     ![c].before7d = before[r.token.i + 1].Limit7D.Available]
    ELSE [Stale(ctx) EXCEPT ![c].stage = "failed",
                     ![c].admission = [NoAdmission EXCEPT !.path = "subscription",
                                                          !.requested = preConsumedQuota],
                     ![c].apiErr = ErrSubscriptionExhausted403]

\* the request's fields after PreConsumeQuota's call of the ledger returned r
\* for the amount preConsumedQuota (subscription path); before is the
\* document the debit was taken from
AfterPreConsume(c, r, before, preConsumedQuota) ==
    IF r.err = "nil"
    THEN [Stale(ctx) EXCEPT ![c].stage = "reserved",
                     ![c].admission = [NoAdmission EXCEPT !.path = "subscription",
                                                          !.requested = preConsumedQuota],
                     ![c].fresh = TRUE,
                     ![c].token = r.token,
                     ![c].FinalPreConsumedQuota = preConsumedQuota,
                     ![c].selected = before[r.token.i + 1].SubscriptionID,
                     ![c].before5h = before[r.token.i + 1].Limit5H.Available,
                     ![c].before7d = before[r.token.i + 1].Limit7D.Available]
    ELSE [Stale(ctx) EXCEPT ![c].stage = "failed",
                     ![c].admission = [NoAdmission EXCEPT !.path = "subscription",
                                                          !.requested = preConsumedQuota],
                     ![c].apiErr = IF r.err = ErrSubscriptionQuotaExhausted
                                   THEN ErrSubscriptionExhausted403
                                   ELSE ErrUpdateData500]

\* the readings of time.Now().Unix() a call may hold when its transaction
\* gets the row lock: the argument is evaluated before the call waits
EnteredAt == { t \in Instants : t <= now }

\* PreConsumeQuota, subscription path: nowSec is the clock reading taken
\* when the call of the ledger was entered
PreConsumeQuota(c, preConsumedQuota) ==
    /\ ctx[c].stage = "new"
    /\ ShouldUseSubscriptionQuota(ctx[c])
    /\ \E nowSec \in EnteredAt :
       \E r \in {PreConsumeUserSubscriptionQuota(doc, ctx[c].UserId, nowSec, preConsumedQuota)} :
          /\ doc' = Persist(doc, r)
          /\ ctx' = AfterPreConsume(c, r, resetAndPruneSubscriptionData(doc, nowSec).items,
                                    preConsumedQuota)
          /\ last' = Call("pre", c, nowSec, preConsumedQuota, r.token, doc, doc', r.err, FALSE)
    /\ UNCHANGED << now, pool, billing, lock, th, serial, pin, pout, wallet, sel, registry, auto, probe, mod >>

\* enforceSubscriptionQuotaOrAbort, reached through
\* SubscriptionQuotaForClaudeBetaMessages (only when the query has
\* beta=true) and SubscriptionQuotaForOpenAIResponses: a request of the
\* subscription group is debited one unit before its handler runs, and is
\* aborted when the debit fails; any other request passes untouched.  The
\* clock is read before the call of the ledger waits for the row.  The
\* source holds this middleware together with the revision of the ledger
\* that has ConsumeUserSubscriptionQuota; it is composed here with the
\* handler of the later revision, whose debit then follows the
\* middleware's on the same document.
enforceSubscriptionQuotaOrAbort(c) ==
    /\ ctx[c].stage = "new"
    /\ ~ctx[c].enforced
    /\ ctx[c].IsClaudeBetaQuery \/ ctx[c].RelayMode = RelayModeResponses
    /\ ctx[c].UserGroup = "subscription"
    /\ \E nowSec \in EnteredAt :
       \E r \in {ConsumeUserSubscriptionQuota(doc, ctx[c].UserId, nowSec, 1)} :
          /\ doc' = Persist(doc, r)
          /\ last' = Call("consume", c, nowSec, 1, EmptyToken, doc, doc', r.err, FALSE)
          /\ ctx' = IF r.err = "nil"
                    THEN [Stale(ctx) EXCEPT ![c].enforced = TRUE]
                    ELSE [Stale(ctx) EXCEPT ![c].stage = "aborted",
                                            ![c].apiErr = IF r.err = ErrSubscriptionQuotaExhausted
                                                          THEN ErrSubscriptionExhausted403
                                                          ELSE ErrUpdateData500]
    /\ UNCHANGED << now, pool, billing, lock, th, serial, pin, pout, wallet, sel, registry, auto, probe, mod >>

\* post-consumption reconciliation of a reserved request, once per request:
\* the measured difference, of either sign, through the request's selection token
PostConsume(c, delta) ==
    /\ ctx[c].stage = "reserved"
    /\ ~ctx[c].settled
    /\ \E r \in {AdjustUserSubscriptionQuotaBySelectionToken(doc, ctx[c].UserId, ctx[c].token, delta)} :
          /\ doc' = Persist(doc, r)
          /\ last' = Call("adj", c, now, delta, ctx[c].token, doc, doc', r.err, ctx[c].fresh)
    /\ ctx' = [Stale(ctx) EXCEPT ![c].settled = TRUE]
    /\ UNCHANGED << now, pool, billing, lock, th, serial, pin, pout, wallet, sel, registry, auto, probe, mod >>

ReturnPreConsumedQuotaUnconditional(c) ==
    /\ ctx[c].stage \in {"reserved", "failed"}
    /\ ctx[c].returns < MaxReturns
    /\ IF ShouldUseSubscriptionQuota(ctx[c])
       THEN /\ ctx' = [ctx EXCEPT ![c].returns = @ + 1, ![c].retPath = "subscription"]
            /\ pool' = [pool EXCEPT ![c] = Append(@, ctx[c].token)]
            /\ wallet' = wallet
       ELSE /\ ctx' = [ctx EXCEPT ![c].returns = @ + 1, ![c].retPath = "wallet"]
            /\ pool' = pool
            /\ wallet' = [wallet EXCEPT !.tasks = @ + 1]
    /\ UNCHANGED << doc, now, billing, last, lock, th, serial, pin, pout, sel, registry, auto, probe, mod >>

\* ReturnPreConsumedQuota: nothing when FinalPreConsumedQuota is 0; on the
\* subscription path the token is read from the gin context now and the
\* reversal is queued on gopool; on the wallet path the negative
\* post-consumption is queued
ReturnPreConsumedQuota(c) ==
    /\ ctx[c].stage \in {"reserved", "failed"}
    /\ ctx[c].returns < MaxReturns
    /\ IF ctx[c].FinalPreConsumedQuota = 0
       THEN /\ ctx' = [ctx EXCEPT ![c].returns = @ + 1]
            /\ pool' = pool
            /\ wallet' = wallet
       ELSE IF ShouldUseSubscriptionQuota(ctx[c])
       THEN /\ ctx' = [ctx EXCEPT ![c].returns = @ + 1, ![c].retPath = "subscription"]
            /\ pool' = [pool EXCEPT ![c] = Append(@, ctx[c].token)]
            /\ wallet' = wallet
       ELSE /\ ctx' = [ctx EXCEPT ![c].returns = @ + 1, ![c].retPath = "wallet"]
            /\ pool' = pool
            /\ wallet' = [wallet EXCEPT !.tasks = @ + 1]
    /\ UNCHANGED << doc, now, billing, last, lock, th, serial, pin, pout, sel, registry, auto, probe, mod >>

\* a queued reversal runs: relayInfo.UserId and
\* relayInfo.FinalPreConsumedQuota are read when the task runs
Reversal(c) ==
    /\ pool[c] # << >>
    /\ pool' = [pool EXCEPT ![c] = Tail(@)]
    /\ \E delta \in {-ctx[c].FinalPreConsumedQuota} :
       \E r \in {AdjustUserSubscriptionQuotaBySelectionToken(doc, ctx[c].UserId, Head(pool[c]), delta)} :
          /\ doc' = Persist(doc, r)
          /\ last' = Call("adj", c, now, delta, Head(pool[c]), doc, doc', r.err, ctx[c].fresh)
          /\ ctx' = IF r.err = "nil"
                    THEN [Stale(ctx) EXCEPT ![c].reversals = @ + 1]
                    ELSE Stale(ctx)
    /\ UNCHANGED << now, billing, lock, th, serial, pin, pout, wallet, sel, registry, auto, probe, mod >>

\* StartSubscriptionQuotaResetLoop: one round of
\* ResetSubscriptionQuotaForAllUsers over the user
ResetSubscriptionQuotaForAllUsers ==
    /\ \E nowSec \in EnteredAt :
       \E r \in {SweepTx(doc, nowSec)} :
          /\ doc' = Persist(doc, r)
          /\ last' = Call("sweep", "none", nowSec, 0, EmptyToken, doc, doc', r.err, FALSE)
    /\ ctx' = Stale(ctx)
    /\ UNCHANGED << now, pool, billing, lock, th, serial, pin, pout, wallet, sel, registry, auto, probe, mod >>

\* The billing process withdraws an entitlement
Withdraw(items, i) == [items EXCEPT ![i].Status = "disabled"]

BillingWithdraw(i) ==
    /\ billing < MaxBilling
    /\ i \in 1..Len(doc)
    /\ doc[i].Status = "deployed"
    /\ doc' = Withdraw(doc, i)
    /\ billing' = billing + 1
    /\ UNCHANGED << now, ctx, pool, last, lock, th, serial, pin, pout, wallet, sel, registry, auto, probe, mod >>

\* The billing process rewrites the document in another order
Swap(items, i) == [items EXCEPT ![i] = items[i + 1], ![i + 1] = items[i]]

BillingReorder(i) ==
    /\ billing < MaxBilling
    /\ i \in 1..(Len(doc) - 1)
    /\ doc' = Swap(doc, i)
    /\ billing' = billing + 1
    /\ UNCHANGED << now, ctx, pool, last, lock, th, serial, pin, pout, wallet, sel, registry, auto, probe, mod >>

Next ==
    \/ Tick
    \/ \E c \in Followed : enforceSubscriptionQuotaOrAbort(c)
    \/ \E c \in Followed, a \in Amounts : PreConsumeQuota(c, a)
    \/ \E c \in Followed, d \in Deltas : PostConsume(c, d)
    \/ \E c \in Followed : ReturnPreConsumedQuota(c)
    \/ \E c \in Followed : Reversal(c)
    \/ ResetSubscriptionQuotaForAllUsers
    \/ \E i \in 1..3 : BillingWithdraw(i)
    \/ \E i \in 1..2 : BillingReorder(i)

Spec == Init /\ [][Next]_vars

(***************************************************************************)
(* SpecLock: the same calls on concurrent goroutines.  A call starts       *)
(* (its arguments are evaluated), takes the row lock with its SELECT ...   *)
(* FOR UPDATE and reads the document, then computes, writes and commits.   *)
(* The source holds two definitions of ResetSubscriptionQuotaForAllUsers:  *)
(* one runs a locking transaction per user, the other reads every user's   *)
(* document in one query and later writes with a plain UPDATE.  A round of *)
(* the reset loop runs either.                                             *)
(***************************************************************************)
\* clause.Locking{Strength: "UPDATE"}: the SELECT waits while another
\* transaction holds the row
RowLockFree(t) == lock = "none"

\* PreConsumeQuota up to the ledger's transaction
PreConsumeStart(c, preConsumedQuota) ==
    /\ ctx[c].stage = "new"
    /\ th[c].pc = "idle"
    /\ ctx' = [ctx EXCEPT ![c].stage = "calling"]
    /\ th' = [th EXCEPT ![c] = [IdleThread EXCEPT !.pc = "called", !.op = "pre", !.ctx = c,
                                 !.nowSec = now, !.amount = preConsumedQuota]]
    /\ UNCHANGED << doc, now, pool, billing, last, lock, serial, pin, pout, wallet, sel, registry, auto, probe, mod >>

\* tx.Clauses(clause.Locking{Strength: "UPDATE"}).First(&user)
TxBegin(t) ==
    /\ th[t].pc = "called"
    /\ RowLockFree(t)
    /\ lock' = t
    /\ th' = [th EXCEPT ![t].pc = "locked", ![t].snap = doc]
    /\ UNCHANGED << doc, now, ctx, pool, billing, last, serial, pin, pout, wallet, sel, registry, auto, probe, mod >>

\* the transaction of PreConsumeUserSubscriptionQuota after its read, its
\* commit, and the lines of PreConsumeQuota after the call
PreConsumeCommit(c) ==
    /\ th[c].pc = "locked"
    /\ th[c].op = "pre"
    /\ \E r \in {PreConsumeUserSubscriptionQuota(th[c].snap, ctx[c].UserId, th[c].nowSec, th[c].amount)},
          s \in {PreConsumeUserSubscriptionQuota(serial, ctx[c].UserId, th[c].nowSec, th[c].amount)} :
          /\ doc' = Persist(doc, r)
          /\ serial' = Persist(serial, s)
          /\ ctx' = AfterPreConsume(c, r,
                        resetAndPruneSubscriptionData(th[c].snap, th[c].nowSec).items,
                        th[c].amount)
    /\ lock' = "none"
    /\ th' = [th EXCEPT ![c] = IdleThread]
    /\ UNCHANGED << now, pool, billing, last, pin, pout, wallet, sel, registry, auto, probe, mod >>

\* a pool goroutine starts a queued reversal
ReversalStart(g, c) ==
    /\ th[g].pc = "idle"
    /\ pool[c] # << >>
    /\ pool' = [pool EXCEPT ![c] = Tail(@)]
    /\ th' = [th EXCEPT ![g] = [IdleThread EXCEPT !.pc = "called", !.op = "adj", !.ctx = c,
                                 !.nowSec = now, !.token = Head(pool[c]),
                                 !.amount = -ctx[c].FinalPreConsumedQuota]]
    /\ UNCHANGED << doc, now, ctx, billing, last, lock, serial, pin, pout, wallet, sel, registry, auto, probe, mod >>

\* the transaction of AdjustUserSubscriptionQuotaBySelectionToken after its read
AdjustCommit(g) ==
    /\ th[g].pc = "locked"
    /\ th[g].op = "adj"
    /\ \E r \in {AdjustUserSubscriptionQuotaBySelectionToken(th[g].snap, ctx[th[g].ctx].UserId,
                                                              th[g].token, th[g].amount)},
          s \in {AdjustUserSubscriptionQuotaBySelectionToken(serial, ctx[th[g].ctx].UserId,
                                                              th[g].token, th[g].amount)} :
          /\ doc' = Persist(doc, r)
          /\ serial' = Persist(serial, s)
          /\ ctx' = IF r.err = "nil"
                    THEN [Stale(ctx) EXCEPT ![th[g].ctx].reversals = @ + 1]
                    ELSE Stale(ctx)
    /\ lock' = "none"
    /\ th' = [th EXCEPT ![g] = IdleThread]
    /\ UNCHANGED << now, pool, billing, last, pin, pout, wallet, sel, registry, auto, probe, mod >>

\* a round of the reset loop starts
SweepStart ==
    /\ th[Sweeper].pc = "idle"
    /\ th' = [th EXCEPT ![Sweeper] = [IdleThread EXCEPT !.pc = "called", !.op = "sweep",
                                       !.nowSec = now]]
    /\ UNCHANGED << doc, now, ctx, pool, billing, last, lock, serial, pin, pout, wallet, sel, registry, auto, probe, mod >>

\* the per-user transaction of ResetSubscriptionQuotaForAllUsers after its read
SweepCommit ==
    /\ th[Sweeper].pc = "locked"
    /\ th[Sweeper].op = "sweep"
    /\ \E r \in {SweepTx(th[Sweeper].snap, th[Sweeper].nowSec)},
          s \in {SweepTx(serial, th[Sweeper].nowSec)} :
          /\ doc' = Persist(doc, r)
          /\ serial' = Persist(serial, s)
    /\ lock' = "none"
    /\ th' = [th EXCEPT ![Sweeper] = IdleThread]
    /\ UNCHANGED << now, ctx, pool, billing, last, pin, pout, wallet, sel, registry, auto, probe, mod >>

\* the query of the definition without a transaction: the documents of all
\* subscription users are read, no lock is taken
SweepReadUnlocked ==
    /\ th[Sweeper].pc = "called"
    /\ th[Sweeper].op = "sweep"
    /\ th' = [th EXCEPT ![Sweeper].pc = "read", ![Sweeper].snap = doc]
    /\ UNCHANGED << doc, now, ctx, pool, billing, last, lock, serial, pin, pout, wallet, sel, registry, auto, probe, mod >>

\* the loop body of that definition for the user: the document read earlier
\* is reset, pruned and, if that changed it, written by an UPDATE of the row,
\* which waits while a transaction holds the row
SweepWriteUnlocked ==
    /\ th[Sweeper].pc = "read"
    /\ \E r \in {SweepTx(th[Sweeper].snap, th[Sweeper].nowSec)},
          s \in {SweepTx(serial, th[Sweeper].nowSec)} :
          /\ r.write => RowLockFree(Sweeper)
          /\ doc' = Persist(doc, r)
          /\ serial' = Persist(serial, s)
    /\ th' = [th EXCEPT ![Sweeper] = IdleThread]
    /\ UNCHANGED << now, ctx, pool, billing, last, lock, pin, pout, wallet, sel, registry, auto, probe, mod >>

NextLock ==
    \/ Tick
    \/ \E c \in Ctx, a \in 1..MaxAmount : PreConsumeStart(c, a)
    \/ \E t \in Threads : TxBegin(t)
    \/ \E c \in Ctx : PreConsumeCommit(c)
    \/ \E c \in Followed : ReturnPreConsumedQuota(c)
    \/ \E g \in Pool, c \in Followed : ReversalStart(g, c)
    \/ \E g \in Pool : AdjustCommit(g)
    \/ SweepStart
    \/ SweepCommit
    \/ SweepReadUnlocked
    \/ SweepWriteUnlocked

SpecLock == Init /\ [][NextLock]_vars

(***************************************************************************)
(* SpecAdmit: PreConsumeQuota and ReturnPreConsumedQuota on both quota     *)
(* paths, for one request whose RelayInfo, wallet balance, token counter   *)
(* and trust threshold are drawn at the start.  The wallet store           *)
(* (model.GetUserQuota, PreConsumeTokenQuota, model.DecreaseUserQuota,     *)
(* PostConsumeQuota) is not part of the sources; it is modelled from the   *)
(* specification, and each of its calls may fail.                          *)
(***************************************************************************)
\* the call of the wallet store that fails during PreConsumeQuota, if any
Faults == {"none", "query", "token", "user"}

\* the calls of SelfQuotaTakeAway of a run
MaxTakeAways == 1

\* model.GetUserQuota: [ok, quota]
GetUserQuota(w, fault) == [ok |-> fault # "query", quota |-> w.UserQuota]

\* PreConsumeTokenQuota: the token's counter after the debit, [ok, TokenQuota]
PreConsumeTokenQuota(w, relayInfo, quota, fault) ==
    IF fault = "token" \/ (~relayInfo.TokenUnlimited /\ w.TokenQuota < quota)
    THEN [ok |-> FALSE, TokenQuota |-> w.TokenQuota]
    ELSE [ok |-> TRUE, TokenQuota |-> w.TokenQuota - quota]

\* model.DecreaseUserQuota: the balance after the debit, [ok, UserQuota]
DecreaseUserQuota(w, quota, fault) ==
    IF fault = "user"
    THEN [ok |-> FALSE, UserQuota |-> w.UserQuota]
    ELSE [ok |-> TRUE, UserQuota |-> w.UserQuota - quota]

insufficientUserQuotaProjectedOnly(userQuota, preConsumedQuota) ==
    userQuota - preConsumedQuota < 0

\* the two balance checks of PreConsumeQuota
insufficientUserQuota(userQuota, preConsumedQuota) ==
    userQuota <= 0 \/ userQuota - preConsumedQuota < 0

trustedPreConsumedQuotaBalanceOnly(userQuota, tokenQuota, tokenUnlimited, trustQuota, preConsumedQuota) ==
    IF userQuota > trustQuota THEN 0 ELSE preConsumedQuota

\* preConsumedQuota after the trust checks of PreConsumeQuota
trustedPreConsumedQuota(userQuota, tokenQuota, tokenUnlimited, trustQuota, preConsumedQuota) ==
    IF userQuota > trustQuota
    THEN IF ~tokenUnlimited
         THEN IF tokenQuota > trustQuota THEN 0 ELSE preConsumedQuota
         ELSE 0
    ELSE preConsumedQuota

\* relayInfo.FinalPreConsumedQuota when the wallet path returns err, amount
\* being preConsumedQuota after the trust checks: assigned on every return
finalOnReturnAlways(relayInfo, err, amount) == amount

\* relayInfo.FinalPreConsumedQuota when the wallet path returns err: assigned
\* on the last line before return nil only
finalOnReturn(relayInfo, err, amount) ==
    IF err = NoApiError THEN amount ELSE relayInfo.FinalPreConsumedQuota

\* the request's fields when the wallet path returns err
WalletReturned(relayInfo, err, amount) ==
    [relayInfo EXCEPT !.stage = IF err = NoApiError THEN "reserved" ELSE "failed",
                      !.apiErr = err,
                      !.FinalPreConsumedQuota = finalOnReturn(relayInfo, err, amount)]

\* PreConsumeQuota, wallet path, up to the call of PreConsumeTokenQuota: the
\* read of the balance, the two balance checks, the trust checks (tokenQuota
\* is c.GetInt("token_quota"), the counter as it was when the request was
\* authenticated), and the return when the read failed, the balance is
\* short or nothing is reserved
PreConsumeQuotaWallet(c, preConsumedQuota, fault) ==
    /\ ctx[c].stage = "new"
    /\ ~ShouldUseSubscriptionQuota(ctx[c])
    /\ \E q \in {GetUserQuota(wallet, fault)} :
       \E tokenQuota \in wallet.seen :
       \E amount \in {trustedPreConsumedQuota(q.quota, tokenQuota, ctx[c].TokenUnlimited,
                                              wallet.TrustQuota, preConsumedQuota)} :
       \E entered \in {[ctx[c] EXCEPT !.admission =
                            [path |-> "wallet", requested |-> preConsumedQuota, fault |-> fault,
                             UserQuota |-> wallet.UserQuota, TokenQuota |-> tokenQuota,
                             amount |-> amount, debitedUser |-> 0, debitedToken |-> 0]]} :
          ctx' = [ctx EXCEPT ![c] =
                    IF ~q.ok THEN WalletReturned(entered, ErrQueryData500, amount)
                    ELSE IF insufficientUserQuota(q.quota, preConsumedQuota)
                    THEN WalletReturned(entered, ErrInsufficientUserQuota403, amount)
                    ELSE IF amount > 0 THEN [entered EXCEPT !.stage = "token"]
                    ELSE WalletReturned(entered, NoApiError, amount)]
    /\ UNCHANGED << doc, now, pool, billing, last, lock, th, serial, pin, pout, wallet, sel, registry, auto, probe, mod >>

\* the same call: PreConsumeTokenQuota(relayInfo, preConsumedQuota) and the
\* return of its error
WalletPreConsumeTokenQuota(c) ==
    /\ ctx[c].stage = "token"
    /\ \E t \in {PreConsumeTokenQuota(wallet, ctx[c], ctx[c].admission.amount,
                                      ctx[c].admission.fault)} :
          IF ~t.ok
          THEN /\ wallet' = wallet
               /\ ctx' = [ctx EXCEPT ![c] = WalletReturned(ctx[c], ErrPreConsumeTokenQuotaFailed403,
                                                           ctx[c].admission.amount)]
          ELSE /\ wallet' = [wallet EXCEPT !.TokenQuota = t.TokenQuota,
                                           !.seen = @ \cup {t.TokenQuota}]
               /\ ctx' = [ctx EXCEPT ![c].stage = "user",
                                     ![c].admission.debitedToken = wallet.TokenQuota - t.TokenQuota]
    /\ UNCHANGED << doc, now, pool, billing, last, lock, th, serial, pin, pout, sel, registry, auto, probe, mod >>

\* the same call: model.DecreaseUserQuota(relayInfo.UserId, preConsumedQuota),
\* the return of its error, or relayInfo.FinalPreConsumedQuota and return nil
WalletDecreaseUserQuota(c) ==
    /\ ctx[c].stage = "user"
    /\ \E u \in {DecreaseUserQuota(wallet, ctx[c].admission.amount, ctx[c].admission.fault)} :
          IF ~u.ok
          THEN /\ wallet' = wallet
               /\ ctx' = [ctx EXCEPT ![c] = WalletReturned(ctx[c], ErrUpdateData500,
                                                           ctx[c].admission.amount)]
          ELSE /\ wallet' = [wallet EXCEPT !.UserQuota = u.UserQuota]
               /\ ctx' = [ctx EXCEPT ![c] =
                            WalletReturned([ctx[c] EXCEPT !.admission.debitedUser =
                                                             wallet.UserQuota - u.UserQuota],
                                           NoApiError, ctx[c].admission.amount)]
    /\ UNCHANGED << doc, now, pool, billing, last, lock, th, serial, pin, pout, sel, registry, auto, probe, mod >>

\* SelfQuotaTakeAway of the user, up to the debit: the read of the balance
\* and the check that it covers quotaToTake
SelfQuotaTakeAway(quotaToTake) ==
    /\ wallet.takes < MaxTakeAways
    /\ wallet.take = 0
    /\ \E q \in {GetUserQuota(wallet, "none")} :
          wallet' = IF q.quota < quotaToTake
                    THEN [wallet EXCEPT !.takes = @ + 1]
                    ELSE [wallet EXCEPT !.takes = @ + 1, !.take = quotaToTake]
    /\ UNCHANGED << doc, now, ctx, pool, billing, last, lock, th, serial, pin, pout, sel, registry, auto, probe, mod >>

\* the same call: model.DecreaseUserQuota(userId, int(quotaToTake))
SelfQuotaTakeAwayDecrease(fault) ==
    /\ wallet.take > 0
    /\ \E u \in {DecreaseUserQuota(wallet, wallet.take, fault)} :
          wallet' = [wallet EXCEPT !.UserQuota = u.UserQuota, !.take = 0]
    /\ UNCHANGED << doc, now, ctx, pool, billing, last, lock, th, serial, pin, pout, sel, registry, auto, probe, mod >>

\* the queued wallet reversal runs: PostConsumeQuota(&relayInfoCopy,
\* -relayInfoCopy.FinalPreConsumedQuota, 0, false) gives the amount back to
\* the balance and to the token's counter; a failure is logged
WalletReversal(c, failed) ==
    /\ wallet.tasks > 0
    /\ ctx[c].retPath = "wallet"
    /\ IF failed
       THEN /\ wallet' = [wallet EXCEPT !.tasks = @ - 1]
            /\ ctx' = ctx
       ELSE /\ wallet' = [wallet EXCEPT !.tasks = @ - 1,
                                        !.UserQuota = @ + ctx[c].FinalPreConsumedQuota,
                                        !.TokenQuota = @ + ctx[c].FinalPreConsumedQuota,
                                        !.seen = @ \cup {wallet.TokenQuota +
                                                         ctx[c].FinalPreConsumedQuota}]
            /\ ctx' = [ctx EXCEPT ![c].reversals = @ + 1]
    /\ UNCHANGED << doc, now, pool, billing, last, lock, th, serial, pin, pout, sel, registry, auto, probe, mod >>

RelayInfos ==
    [UserGroup : {"subscription", "default"}, IsClaudeBetaQuery : BOOLEAN,
     RelayMode : {RelayModeResponses, "chat_completions"}, TokenUnlimited : BOOLEAN]

Wallets ==
    { [UserQuota |-> u, TokenQuota |-> t, TrustQuota |-> q, tasks |-> 0, take |-> 0, takes |-> 0,
       seen |-> {t}] : u \in -1..3, t \in 0..3, q \in 1..2 }

\* the documents of InitDocs, a user without subscriptions, and a user whose
\* only subscription has one unit left
AdmitDocs ==
    InitDocs \cup
    { << >>,
      << Item("s1", "deployed", Limit(2, 1, W(50000)), Limit(3, 1, W(50000)), W(500), W(90000)) >> }

InitAdmit ==
    /\ doc \in AdmitDocs
    /\ now = 1000
    /\ \E info \in RelayInfos :
          ctx = [c \in Ctx |-> [NewCtx EXCEPT !.UserGroup = info.UserGroup,
                                               !.IsClaudeBetaQuery = info.IsClaudeBetaQuery,
                                               !.RelayMode = info.RelayMode,
                                               !.TokenUnlimited = info.TokenUnlimited]]
    /\ wallet \in Wallets
    /\ sel = NoSel
    /\ registry = NoRegistry
    /\ auto = NoAuto
    /\ probe = NoProbe
    /\ mod = NoMod
    /\ pool = [c \in Ctx |-> << >>]
    /\ billing = 0
    /\ last = NoCall
    /\ lock = "none"
    /\ th = [t \in Threads |-> IdleThread]
    /\ serial = doc
    /\ pin = [items |-> << >>, nowSec |-> 0]
    /\ pout = NoResult

NextAdmit ==
    \/ \E c \in Followed : enforceSubscriptionQuotaOrAbort(c)
    \/ \E c \in Followed, a \in Amounts : PreConsumeQuota(c, a)
    \/ \E c \in Followed, a \in 0..MaxAmount, f \in Faults : PreConsumeQuotaWallet(c, a, f)
    \/ \E c \in Followed : WalletPreConsumeTokenQuota(c)
    \/ \E c \in Followed : WalletDecreaseUserQuota(c)
    \/ \E c \in Followed : ReturnPreConsumedQuota(c)
    \/ \E c \in Followed : Reversal(c)
    \/ \E c \in Followed, failed \in BOOLEAN : WalletReversal(c, failed)

SpecAdmit == InitAdmit /\ [][NextAdmit]_vars

(***************************************************************************)
(* SpecWallet: the wallet path under concurrency.  Two requests of one     *)
(* user and token run PreConsumeQuota store call by store call, the user   *)
(* runs SelfQuotaTakeAway, and the followed request is returned.  The      *)
(* store calls are not in one transaction and take no lock.                *)
(***************************************************************************)
InitWallet ==
    /\ doc = << >>
    /\ now = 1000
    /\ \E unlimited \in BOOLEAN :
          ctx = [c \in Ctx |-> [NewCtx EXCEPT !.UserGroup = "default",
                                               !.RelayMode = "chat_completions",
                                               !.TokenUnlimited = unlimited]]
    /\ wallet \in Wallets
    /\ sel = NoSel
    /\ registry = NoRegistry
    /\ auto = NoAuto
    /\ probe = NoProbe
    /\ mod = NoMod
    /\ pool = [c \in Ctx |-> << >>]
    /\ billing = 0
    /\ last = NoCall
    /\ lock = "none"
    /\ th = [t \in Threads |-> IdleThread]
    /\ serial = doc
    /\ pin = [items |-> << >>, nowSec |-> 0]
    /\ pout = NoResult

\* the followed request with every amount and fault of the store, the
\* request that runs beside it with a positive amount and a store that works
NextWallet ==
    \/ \E c \in Followed, a \in 0..MaxAmount, f \in Faults : PreConsumeQuotaWallet(c, a, f)
    \/ \E c \in Ctx \ Followed, a \in 1..MaxAmount : PreConsumeQuotaWallet(c, a, "none")
    \/ \E c \in Ctx : WalletPreConsumeTokenQuota(c)
    \/ \E c \in Ctx : WalletDecreaseUserQuota(c)
    \/ \E q \in 1..MaxAmount : SelfQuotaTakeAway(q)
    \/ \E f \in {"none", "user"} : SelfQuotaTakeAwayDecrease(f)
    \/ \E c \in Followed : ReturnPreConsumedQuota(c)
    \/ \E c \in Followed, failed \in BOOLEAN : WalletReversal(c, failed)

SpecWallet == InitWallet /\ [][NextWallet]_vars

(***************************************************************************)
(* SpecSelect: one call of selectChannelWithTemporarySkip against the      *)
(* temporary disable registry while the clock advances.  The satisfier     *)
(* model.GetRandomSatisfiedChannel is not part of the sources; it is       *)
(* modelled from the specification as returning any channel outside the    *)
(* exclusion set, nil, the filtered sentinel, or another error.            *)
(***************************************************************************)
\* model.GetRandomSatisfiedChannel(group, modelName, retry, excluded)
GetRandomSatisfiedChannel(excluded) ==
    { [channel |-> id, err |-> "nil"] : id \in Channels \ excluded }
    \cup { [channel |-> NilChannel, err |-> e] :
              e \in {"nil", ErrAllCandidateChannelsFiltered, "no such group", "database error"} }

\* GetTemporaryDisabledChannelInfo: [ok, registry]; an expired entry is deleted
GetTemporaryDisabledChannelInfo(reg, channelID, nowSec) ==
    IF ~reg[channelID].present
    THEN [ok |-> FALSE, registry |-> reg]
    ELSE IF nowSec > reg[channelID].expireAt
    THEN [ok |-> FALSE, registry |-> [reg EXCEPT ![channelID] = NoEntry]]
    ELSE [ok |-> TRUE, registry |-> reg]

attemptsExhaustedAfterLimit(attempts) == attempts > maxTemporaryDisableSelectionAttempts

\* the loop's exit test after attempts++
attemptsExhausted(attempts) == attempts >= maxTemporaryDisableSelectionAttempts

excludeLastOnly(excluded, channelID) == {channelID}

\* excluded[channel.Id] = struct{}{}
exclude(excluded, channelID) == excluded \cup {channelID}

onSatisfierErrorAlwaysSentinel(out) ==
    [channel |-> NilChannel, err |-> errAllCandidateChannelsTemporarilyDisabled]

\* what the function returns when the satisfier returned (out.channel, out.err)
\* with an error
onSatisfierError(out) ==
    IF out.err = ErrAllCandidateChannelsFiltered
    THEN [channel |-> NilChannel, err |-> errAllCandidateChannelsTemporarilyDisabled]
    ELSE [channel |-> out.channel, err |-> out.err]

\* the function returns (channel, err)
Returned(s, channel, err, allDisabled) ==
    [s EXCEPT !.pc = "done", !.channel = channel, !.err = err,
              !.calls = @ + 1, !.allDisabled = allDisabled]

\* the satisfier was given s.excluded and answered out
Answered(s, out) == [s EXCEPT !.answer = out, !.given = s.excluded]

\* one iteration of the loop of selectChannelWithTemporarySkip
SelectIterate ==
    /\ sel.pc = "loop"
    /\ \E out \in GetRandomSatisfiedChannel(sel.excluded) :
          IF out.err # "nil"
          THEN /\ \E ret \in {onSatisfierError(out)} :
                     sel' = Returned(Answered(sel, out), ret.channel, ret.err, FALSE)
               /\ registry' = registry
          ELSE IF out.channel = NilChannel
          THEN /\ sel' = Returned(Answered(sel, out), NilChannel, "nil", FALSE)
               /\ registry' = registry
          ELSE \E info \in {GetTemporaryDisabledChannelInfo(registry, out.channel, now)} :
                  /\ registry' = info.registry
                  /\ sel' = IF ~info.ok
                            THEN Returned(Answered(sel, out), out.channel, "nil", FALSE)
                            ELSE IF attemptsExhausted(sel.attempts + 1)
                            THEN [Returned(Answered(sel, out), NilChannel,
                                           errAllCandidateChannelsTemporarilyDisabled,
                                           sel.allDisabled)
                                    EXCEPT !.excluded = exclude(@, out.channel),
                                           !.found = @ \cup {out.channel},
                                           !.attempts = @ + 1]
                            ELSE [Answered(sel, out)
                                    EXCEPT !.excluded = exclude(@, out.channel),
                                           !.found = @ \cup {out.channel},
                                           !.attempts = @ + 1,
                                           !.calls = @ + 1]
    /\ UNCHANGED << doc, now, ctx, pool, billing, last, lock, th, serial, pin, pout, wallet, auto, probe, mod >>

\* registries at the start of a selection: every channel disabled beyond the
\* run, every channel disabled until the clock's next reading, all but the
\* last channel disabled, none disabled
Registries ==
    { [id \in Channels |-> DisabledUntil(3000)],
      [id \in Channels |-> DisabledUntil(1500)],
      [id \in Channels |-> IF id < NumChannels THEN DisabledUntil(3000) ELSE NoEntry],
      NoRegistry }

InitSelect ==
    /\ LedgerInit
    /\ wallet = NoWallet
    /\ pin = [items |-> << >>, nowSec |-> 0]
    /\ pout = NoResult
    /\ sel = NewSel
    /\ registry \in Registries
    /\ auto = NoAuto
    /\ probe = NoProbe
    /\ mod = NoMod

NextSelect ==
    \/ SelectIterate
    \/ Tick

\* the goroutine running the selection is scheduled and the satisfier returns
SpecSelect == InitSelect /\ [][NextSelect]_vars /\ WF_vars(SelectIterate)

(***************************************************************************)
(* SpecAuto: CacheGetRandomSatisfiedChannel.  Each call of                 *)
(* selectChannelWithTemporarySkip it makes runs the loop of SpecSelect.    *)
(* setting.GetAutoGroups and GetUserAutoGroup are not part of the sources; *)
(* they are modelled from the specification as a flag and an ordered list. *)
(***************************************************************************)
\* GetUserAutoGroup(userGroup): the caller's permitted auto-groups, in order
AutoGroupLists == { << >>, << "g1" >>, << "g1", "g2" >> }

\* the group argument
RequestedGroups == {"auto", "g1", "vip"}

errAutoGroupsNotEnabled == "auto groups is not enabled"

\* CacheGetRandomSatisfiedChannel on entry for the group argument, with
\* len(setting.GetAutoGroups()) > 0 as enabled and GetUserAutoGroup(userGroup)
\* as groups; i is the position of the range loop, autoGroupKey the gin key
\* "auto_group", tried the history of the selections made, one per group
NewAuto(group, enabled, groups) ==
    [pc |-> "start", group |-> group, enabled |-> enabled, groups |-> groups,
     i |-> 0, channel |-> NilChannel, selectGroup |-> group, lastErr |-> "nil",
     autoGroupKey |-> "", tried |-> << >>,
     ret |-> [channel |-> NilChannel, group |-> "", err |-> "nil"]]

\* return channel, group, err
AutoReturned(a, channel, group, err) ==
    [a EXCEPT !.pc = "done", !.ret = [channel |-> channel, group |-> group, err |-> err]]

\* the statements after the range loop
AutoAfterLoop(a) ==
    IF a.channel = NilChannel /\ a.lastErr # "nil"
    THEN AutoReturned(a, NilChannel, a.selectGroup, a.lastErr)
    ELSE AutoReturned(a, a.channel, a.selectGroup, "nil")

autoGroupVerdictAbortOnSentinel(channel, err) ==
    IF err # "nil" THEN "abort"
    ELSE IF channel = NilChannel THEN "next"
    ELSE "selected"

\* what the range loop does with the result of one group's selection
autoGroupVerdict(channel, err) ==
    IF err # "nil"
    THEN IF err = errAllCandidateChannelsTemporarilyDisabled THEN "remember" ELSE "abort"
    ELSE IF channel = NilChannel THEN "next"
    ELSE "selected"

selectedGroupRequested(group, autoGroup) == group

\* c.Set("auto_group", autoGroup); selectGroup = autoGroup
selectedGroup(group, autoGroup) == autoGroup

\* the function is entered: up to the first call of
\* selectChannelWithTemporarySkip, or to the return when there is none
AutoStart ==
    /\ auto.pc = "start"
    /\ IF auto.group = "auto"
       THEN IF ~auto.enabled
            THEN /\ auto' = AutoReturned(auto, NilChannel, auto.selectGroup, errAutoGroupsNotEnabled)
                 /\ sel' = sel
            ELSE IF auto.groups = << >>
            THEN /\ auto' = AutoAfterLoop(auto)
                 /\ sel' = sel
            ELSE /\ auto' = [auto EXCEPT !.pc = "select", !.i = 1]
                 /\ sel' = NewSel
       ELSE /\ auto' = [auto EXCEPT !.pc = "select"]
            /\ sel' = NewSel
    /\ UNCHANGED << doc, now, ctx, pool, billing, last, lock, th, serial, pin, pout, wallet, registry, probe, mod >>

\* selectChannelWithTemporarySkip returned (sel.channel, sel.err) for the
\* current group: up to the next call of it, or to the return
AutoAfterSelect ==
    /\ auto.pc = "select"
    /\ sel.pc = "done"
    /\ IF auto.group = "auto"
       THEN \E autoGroup \in {auto.groups[auto.i]} :
            \E a \in {[auto EXCEPT !.channel = sel.channel,
                                   !.tried = Append(@, [group |-> autoGroup,
                                                        channel |-> sel.channel,
                                                        err |-> sel.err])]} :
            \E verdict \in {autoGroupVerdict(sel.channel, sel.err)} :
               IF verdict = "abort"
               THEN auto' = AutoReturned(a, NilChannel, autoGroup, sel.err)
               ELSE IF verdict = "selected"
               THEN auto' = AutoAfterLoop([a EXCEPT
                                !.autoGroupKey = selectedGroup(auto.group, autoGroup),
                                !.selectGroup = selectedGroup(auto.group, autoGroup)])
               ELSE \E n \in {IF verdict = "remember" THEN [a EXCEPT !.lastErr = sel.err] ELSE a} :
                       IF auto.i < Len(auto.groups)
                       THEN auto' = [n EXCEPT !.i = @ + 1]
                       ELSE auto' = AutoAfterLoop(n)
       ELSE \E a \in {[auto EXCEPT !.channel = sel.channel,
                                   !.tried = Append(@, [group |-> auto.group,
                                                        channel |-> sel.channel,
                                                        err |-> sel.err])]} :
               IF sel.err # "nil"
               THEN auto' = AutoReturned(a, NilChannel, auto.group, sel.err)
               ELSE auto' = AutoReturned(a, sel.channel, a.selectGroup, "nil")
    /\ sel' = IF auto'.pc = "select" THEN NewSel ELSE NoSel
    /\ UNCHANGED << doc, now, ctx, pool, billing, last, lock, th, serial, pin, pout, wallet, registry, probe, mod >>

InitAuto ==
    /\ doc = << >>
    /\ now = 1000
    /\ ctx = [c \in Ctx |-> NewCtx]
    /\ pool = [c \in Ctx |-> << >>]
    /\ billing = 0
    /\ last = NoCall
    /\ lock = "none"
    /\ th = [t \in Threads |-> IdleThread]
    /\ serial = doc
    /\ wallet = NoWallet
    /\ pin = [items |-> << >>, nowSec |-> 0]
    /\ pout = NoResult
    /\ sel = NoSel
    /\ registry \in Registries
    /\ auto \in { NewAuto(group, enabled, groups) :
                     group \in RequestedGroups, enabled \in BOOLEAN, groups \in AutoGroupLists }
    /\ probe = NoProbe
    /\ mod = NoMod

NextAuto ==
    \/ AutoStart
    \/ SelectIterate
    \/ AutoAfterSelect
    \/ Tick

SpecAuto == InitAuto /\ [][NextAuto]_vars

(***************************************************************************)
(* SpecRegistry: the temporary disable registry under concurrent calls of   *)
(* TemporarilyDisableChannel, of GetTemporaryDisabledChannelInfo and of    *)
(* the cleanup loop, while the clock advances.  A call is one step per     *)
(* stretch it runs without another goroutine being able to change what it  *)
(* sees: the clock readings taken outside the lock are steps of their own. *)
(* SpecRegistryShared is the registry of the revision whose reads copy     *)
(* the entry under the read lock.  Times are in seconds.                   *)
(***************************************************************************)
defaultTemporaryChannelDisableDuration == 300
maxTemporaryDisableReasonLength == 256

\* the calls of TemporarilyDisableChannel of a run
MaxDisables == 3

RegistryChannels == {1, 2}
RegistryInstants == {1000, 1100, 1301}
Durations == {-1, 0, 100}
ReasonLens == {300}

effectiveDisableDurationNoDefault(duration) == duration

\* if duration <= 0 { duration = defaultTemporaryChannelDisableDuration }
effectiveDisableDuration(duration) ==
    IF duration <= 0 THEN defaultTemporaryChannelDisableDuration ELSE duration

\* reason[:maxTemporaryDisableReasonLength]
truncatedReasonLen(reasonLen) == Min(reasonLen, maxTemporaryDisableReasonLength)

\* time.Now().After(entry.expireAt)
expired(entry, nowSec) == nowSec > entry.expireAt

startTemporaryDisabledCleanupLoopEveryCall(p) ==
    [p EXCEPT !.cleanupStarted = TRUE, !.loops = @ + 1]

\* startTemporaryDisabledCleanupLoop: temporaryDisabledCleanupOnce.Do starts
\* the ticker and its goroutine on the first call only
startTemporaryDisabledCleanupLoop(p) ==
    IF p.cleanupStarted THEN p
    ELSE [p EXCEPT !.cleanupStarted = TRUE, !.loops = @ + 1]

\* the history of a call: what it was given, the entry it read, what it returned
Probed(op, channelID, entry, ok, expireAt) ==
    [probe EXCEPT !.op = op, !.channelID = channelID, !.nowSec = now, !.entry = entry,
                  !.ok = ok, !.expireAt = expireAt]

\* the goroutines that may be inside TemporarilyDisableChannel at once
Writers == {1, 2}

\* a goroutine that is not between its clock reading and its write
NoWrite == [channelID |-> 0, duration |-> 0, expireAt |-> 0, reasonLen |-> 0]

\* TemporarilyDisableChannel(channelID, duration, reason), up to the wait
\* for the write lock: the cleanup loop, the default duration, the truncated
\* reason and expireAt := time.Now().Add(duration) are the goroutine's own
TemporarilyDisableChannel(g, channelID, duration, reasonLen) ==
    /\ probe.disables < MaxDisables
    /\ probe.writes[g] = NoWrite
    /\ \A h \in Writers : probe.writes[h] = NoWrite => g <= h
    /\ \E expireAt \in {now + effectiveDisableDuration(duration)} :
          probe' = [startTemporaryDisabledCleanupLoop(
                          Probed("disable-enter", channelID, registry[channelID], FALSE, expireAt))
                      EXCEPT !.duration = duration, !.mu = "none", !.disables = @ + 1,
                             !.writes[g] = [channelID |-> channelID,
                                            duration |-> effectiveDisableDuration(duration),
                                            expireAt |-> expireAt,
                                            reasonLen |-> truncatedReasonLen(reasonLen)]]
    /\ UNCHANGED << doc, now, ctx, pool, billing, last, lock, th, serial, pin, pout, wallet, sel, registry, auto, mod >>

\* the same call from temporaryDisabledChannelsMu.Lock() to its return: the
\* entry it writes carries the clock reading taken before the lock
TemporarilyDisableChannelStore(g) ==
    /\ probe.writes[g] # NoWrite
    /\ \E w \in {probe.writes[g]} :
          /\ registry' = [registry EXCEPT ![w.channelID] =
                             DisabledEntry(w.expireAt, w.reasonLen)]
          /\ probe' = [Probed("disable", w.channelID, registry[w.channelID], TRUE, w.expireAt)
                         EXCEPT !.duration = w.duration, !.mu = "Lock", !.writes[g] = NoWrite]
    /\ UNCHANGED << doc, now, ctx, pool, billing, last, lock, th, serial, pin, pout, wallet, sel, auto, mod >>

\* IsChannelTemporarilyDisabled / GetTemporaryDisabledChannelInfo, the
\* revision that reads and deletes under one lock
IsChannelTemporarilyDisabled(channelID) ==
    /\ \E entry \in {registry[channelID]} :
          IF ~entry.present
          THEN /\ registry' = registry
               /\ probe' = [Probed("info", channelID, entry, FALSE, 0)
                              EXCEPT !.mu = "Lock"]
          ELSE IF expired(entry, now)
          THEN /\ registry' = [registry EXCEPT ![channelID] = NoEntry]
               /\ probe' = [Probed("info", channelID, entry, FALSE, 0)
                              EXCEPT !.mu = "Lock"]
          ELSE /\ registry' = registry
               /\ probe' = [Probed("info", channelID, entry, TRUE, entry.expireAt)
                              EXCEPT !.mu = "Lock"]
    /\ UNCHANGED << doc, now, ctx, pool, billing, last, lock, th, serial, pin, pout, wallet, sel, auto, mod >>

\* GetTemporaryDisabledChannelInfo, the revision that reads under the read
\* lock and deletes under the write lock: the read of the map into the
\* goroutine's copy, and the return when the channel has no entry
InfoReadShared(channelID) ==
    /\ probe.pending = 0
    /\ \E entry \in {registry[channelID]} :
          IF ~entry.present
          THEN probe' = [Probed("info", channelID, entry, FALSE, 0)
                           EXCEPT !.mu = "RLock"]
          ELSE probe' = [Probed("reading", channelID, entry, FALSE, 0)
                           EXCEPT !.pending = channelID, !.copy = entry, !.deleting = FALSE,
                                  !.mu = "RLock"]
    /\ UNCHANGED << doc, now, ctx, pool, billing, last, lock, th, serial, pin, pout, wallet, sel, registry, auto, mod >>

\* the same revision, after RUnlock: time.Now().After(entry.expireAt) on the
\* copy, and the return of the copy when it has not expired
InfoExpiryTest ==
    /\ probe.pending # 0
    /\ ~probe.deleting
    /\ IF expired(probe.copy, now)
       THEN probe' = [Probed("testing", probe.pending, probe.copy, FALSE, 0)
                        EXCEPT !.deleting = TRUE, !.mu = "RLock"]
       ELSE probe' = [Probed("info", probe.pending, probe.copy, TRUE, probe.copy.expireAt)
                        EXCEPT !.pending = 0, !.copy = NoEntry, !.mu = "RLock"]
    /\ UNCHANGED << doc, now, ctx, pool, billing, last, lock, th, serial, pin, pout, wallet, sel, registry, auto, mod >>

\* the same revision: the delete under the write lock and the return
InfoDeleteExclusive ==
    /\ probe.pending # 0
    /\ probe.deleting
    /\ registry' = [registry EXCEPT ![probe.pending] = NoEntry]
    /\ probe' = [probe EXCEPT !.op = "info-delete", !.channelID = probe.pending,
                              !.nowSec = now, !.entry = probe.copy,
                              !.ok = FALSE, !.expireAt = 0, !.pending = 0,
                              !.copy = NoEntry, !.deleting = FALSE, !.mu = "Lock"]
    /\ UNCHANGED << doc, now, ctx, pool, billing, last, lock, th, serial, pin, pout, wallet, sel, auto, mod >>

\* a tick of the cleanup loop that the first TemporarilyDisableChannel
\* started: now := time.Now(), before the write lock
cleanupTick ==
    /\ probe.loops > 0
    /\ probe.tick = 0
    /\ probe' = [probe EXCEPT !.op = "tick", !.nowSec = now, !.tick = now, !.mu = "none"]
    /\ UNCHANGED << doc, now, ctx, pool, billing, last, lock, th, serial, pin, pout, wallet, sel, registry, auto, mod >>

\* cleanupExpiredTemporaryDisabledChannels under the write lock, with the
\* clock reading of its tick
cleanupExpiredTemporaryDisabledChannels ==
    /\ probe.tick # 0
    /\ registry' = [id \in Channels |->
                      IF registry[id].present /\ expired(registry[id], probe.tick)
                      THEN NoEntry ELSE registry[id]]
    /\ probe' = [probe EXCEPT !.op = "cleanup", !.nowSec = probe.tick, !.tick = 0, !.mu = "Lock",
                              !.swept = { id \in Channels :
                                            registry[id].present /\ expired(registry[id], probe.tick) }]
    /\ UNCHANGED << doc, now, ctx, pool, billing, last, lock, th, serial, pin, pout, wallet, sel, auto, mod >>

\* time.Now() advances
ClockAdvance ==
    /\ \E t \in RegistryInstants : t > now /\ now' = t
    /\ UNCHANGED << doc, ctx, pool, billing, last, lock, th, serial, pin, pout, wallet, sel, registry, auto, probe, mod >>

InitRegistry ==
    /\ doc = << >>
    /\ now = 1000
    /\ ctx = [c \in Ctx |-> NewCtx]
    /\ pool = [c \in Ctx |-> << >>]
    /\ billing = 0
    /\ last = NoCall
    /\ lock = "none"
    /\ th = [t \in Threads |-> IdleThread]
    /\ serial = doc
    /\ wallet = NoWallet
    /\ pin = [items |-> << >>, nowSec |-> 0]
    /\ pout = NoResult
    /\ sel = NoSel
    /\ registry = NoRegistry
    /\ auto = NoAuto
    /\ probe = [NoProbe EXCEPT !.writes = [g \in Writers |-> NoWrite]]
    /\ mod = NoMod

NextRegistry ==
    \/ \E g \in Writers, id \in RegistryChannels, d \in Durations, n \in ReasonLens :
          TemporarilyDisableChannel(g, id, d, n)
    \/ \E g \in Writers : TemporarilyDisableChannelStore(g)
    \/ \E id \in RegistryChannels : IsChannelTemporarilyDisabled(id)
    \/ cleanupTick
    \/ cleanupExpiredTemporaryDisabledChannels
    \/ ClockAdvance

SpecRegistry == InitRegistry /\ [][NextRegistry]_vars

\* the registry of the revision whose reads take the read lock
NextRegistryShared ==
    \/ \E g \in Writers, id \in RegistryChannels, d \in Durations, n \in ReasonLens :
          TemporarilyDisableChannel(g, id, d, n)
    \/ \E g \in Writers : TemporarilyDisableChannelStore(g)
    \/ \E id \in RegistryChannels : InfoReadShared(id)
    \/ InfoExpiryTest
    \/ InfoDeleteExclusive
    \/ ClockAdvance

SpecRegistryShared == InitRegistry /\ [][NextRegistryShared]_vars

(***************************************************************************)
(* SpecModeration: one call of EnforceChatModeration, the provider's       *)
(* answer, the webhook task, and the client disconnecting.  Texts are      *)
(* sequences of byte values.  The channel store (model.CacheGetChannel,    *)
(* model.GetFirstChannelByName) is not part of the sources and is modelled *)
(* from the specification.                                                 *)
(***************************************************************************)
\* unicode.IsSpace on the bytes used here: space and newline
IsSpace(ch) == ch \in {32, 10}

RECURSIVE TrimLeft(_)
TrimLeft(text) ==
    IF text # << >> /\ IsSpace(Head(text)) THEN TrimLeft(Tail(text)) ELSE text

RECURSIVE TrimRight(_)
TrimRight(text) ==
    IF text # << >> /\ IsSpace(text[Len(text)])
    THEN TrimRight(SubSeq(text, 1, Len(text) - 1))
    ELSE text

\* strings.TrimSpace
TrimSpace(text) == TrimRight(TrimLeft(text))

\* byte-wise comparison of Go strings: a < b
RECURSIVE LexLess(_, _)
LexLess(a, b) ==
    IF b = << >> THEN FALSE
    ELSE IF a = << >> THEN TRUE
    ELSE IF Head(a) # Head(b) THEN Head(a) < Head(b)
    ELSE LexLess(Tail(a), Tail(b))

\* insertion of x into the sorted sequence
RECURSIVE InsertSorted(_, _)
InsertSorted(x, sorted) ==
    IF sorted = << >> THEN << x >>
    ELSE IF LexLess(Head(sorted), x) THEN << Head(sorted) >> \o InsertSorted(x, Tail(sorted))
    ELSE << x >> \o sorted

RECURSIVE sortStringsReversed(_)
sortStringsReversed(strs) ==
    IF strs = << >> THEN << >> ELSE sortStringsReversed(Tail(strs)) \o << Head(strs) >>

\* sort.Strings
RECURSIVE sortStrings(_)
sortStrings(strs) ==
    IF strs = << >> THEN << >> ELSE InsertSorted(Head(strs), sortStrings(Tail(strs)))

\* strings.Join(strs, ", ")
RECURSIVE Join(_)
Join(strs) ==
    IF strs = << >> THEN << >>
    ELSE IF Len(strs) = 1 THEN Head(strs)
    ELSE Head(strs) \o << 44, 32 >> \o Join(Tail(strs))

RelayModeUnknown == "unknown"
RelayModeChatCompletions == "chat_completions"
RelayModeCompletions == "completions"
RelayModeEmbeddings == "embeddings"
RelayFormatClaude == "claude"
RelayFormatOpenAI == "openai"

\* common.IsModerationEnabledForGroup
IsModerationEnabledForGroup(moderationGroupSet, group) ==
    IF TrimSpace(group) = << >> THEN FALSE ELSE TrimSpace(group) \in moderationGroupSet

\* collectModerationDetails: the fields the gate uses
collectModerationDetails(req) ==
    LET combineText == IF req.meta THEN req.CombineText ELSE << >>
    IN [UserID |-> req.UserID, Group |-> req.Group,
        LastUserMessage |-> req.LastUserMessage, RequestBody |-> req.RequestBody,
        CombinedText |->
            IF TrimSpace(combineText) # << >> THEN combineText
            ELSE IF TrimSpace(req.LastUserMessage) # << >> THEN req.LastUserMessage
            ELSE IF TrimSpace(req.RequestBody) # << >> THEN req.RequestBody
            ELSE combineText]

shouldRunModerationAnyUser(moderationGroupSet, details, relayMode, relayFormat) ==
    IF ~IsModerationEnabledForGroup(moderationGroupSet, details.Group) THEN FALSE
    ELSE IF TrimSpace(details.CombinedText) = << >> THEN FALSE
    ELSE IF relayMode \in {RelayModeChatCompletions, RelayModeCompletions, RelayModeResponses}
    THEN TRUE
    ELSE relayMode = RelayModeUnknown /\ relayFormat = RelayFormatClaude

shouldRunModeration(moderationGroupSet, details, relayMode, relayFormat) ==
    IF details.UserID = 1 THEN FALSE
    ELSE IF ~IsModerationEnabledForGroup(moderationGroupSet, details.Group) THEN FALSE
    ELSE IF TrimSpace(details.CombinedText) = << >> THEN FALSE
    ELSE IF relayMode \in {RelayModeChatCompletions, RelayModeCompletions, RelayModeResponses}
    THEN TRUE
    ELSE relayMode = RelayModeUnknown /\ relayFormat = RelayFormatClaude

\* a nil *model.Channel, and the channels named "moderation-key" of the runs:
\* one with a key, one whose key is blank, one without key list
NilModerationChannel == [Id |-> 0, Keys |-> << >>, Key |-> << >>]
ModerationChannels ==
    { [Id |-> 1, Keys |-> << << 107 >> >>, Key |-> << 107 >>],
      [Id |-> 1, Keys |-> << << 32 >> >>, Key |-> << 32 >>],
      [Id |-> 2, Keys |-> << >>, Key |-> << 32, 107 >>] }

gormErrRecordNotFound == "record not found"

\* the channel store: the channel named "moderation-key", or the error of
\* the lookup by name
ModerationStores ==
    { [named |-> ch, err |-> "nil"] : ch \in ModerationChannels }
    \cup { [named |-> NilModerationChannel, err |-> e] :
              e \in {gormErrRecordNotFound, "database error"} }

\* model.CacheGetChannel(id)
CacheGetChannel(store, id) ==
    IF store.err = "nil" /\ store.named.Id = id
    THEN [channel |-> store.named, err |-> "nil"]
    ELSE [channel |-> NilModerationChannel, err |-> "channel not found"]

\* model.GetFirstChannelByName(moderationChannelName)
GetFirstChannelByName(store) == [channel |-> store.named, err |-> store.err]

firstChannelKey(channel) ==
    IF channel = NilModerationChannel THEN << >>
    ELSE IF Len(channel.Keys) > 0 THEN TrimSpace(channel.Keys[1])
    ELSE TrimSpace(channel.Key)

errModerationKeyEmpty == "moderation channel key is empty"

\* getModerationAPIKey with moderationChannelID = cachedID:
\* [key, err, channelID], channelID being moderationChannelID afterwards
getModerationAPIKey(cachedID, store) ==
    LET cached == CacheGetChannel(store, cachedID)
        byName == GetFirstChannelByName(store)
    IN IF cachedID > 0 /\ cached.err = "nil"
       THEN IF firstChannelKey(cached.channel) # << >>
            THEN [key |-> firstChannelKey(cached.channel), err |-> "nil", channelID |-> cachedID]
            ELSE [key |-> << >>, err |-> errModerationKeyEmpty, channelID |-> cachedID]
       ELSE IF byName.err # "nil"
       THEN [key |-> << >>, err |-> byName.err, channelID |-> 0]
       ELSE IF firstChannelKey(byName.channel) # << >>
       THEN [key |-> firstChannelKey(byName.channel), err |-> "nil",
             channelID |-> byName.channel.Id]
       ELSE [key |-> << >>, err |-> errModerationKeyEmpty, channelID |-> byName.channel.Id]

\* category labels "a", "ab", "b"
Categories == { << 97 >>, << 97, 98 >>, << 98 >> }

\* the Categories map of a result: a flag for some of the labels
CategoryMaps == UNION { [S -> BOOLEAN] : S \in SUBSET Categories }

\* what callMistralModeration returns: an error, or a response with no
\* result, one result, or two results of which the first flags nothing
ModerationResponses ==
    { [err |-> e, Results |-> << >>] : e \in {"nil", "status 500", "context canceled"} }
    \cup { [err |-> "nil", Results |-> << m >>] : m \in CategoryMaps }
    \cup { [err |-> "nil", Results |-> << [c \in {} |-> TRUE], [c \in Categories |-> TRUE] >>] }

\* the sequences without repetition of the elements of S
Orderings(S) ==
    { f \in [1..Cardinality(S) -> S] : \A i, j \in 1..Cardinality(S) : f[i] = f[j] => i = j }

\* extractTriggeredCategories: the slices it can return, one per order in
\* which the range over the map can visit the flagged labels
extractTriggeredCategories(resp) ==
    IF resp.Results = << >> THEN { << >> }
    ELSE Orderings({ c \in DOMAIN resp.Results[1] : resp.Results[1][c] })

moderationWebhookTimeout == 5

webhookContextOfRequest(cancelled) ==
    [parent |-> "request", timeout |-> moderationWebhookTimeout, cancelled |-> cancelled]

\* context.WithTimeout(context.Background(), 5*time.Second)
webhookContext(cancelled) ==
    [parent |-> "background", timeout |-> moderationWebhookTimeout, cancelled |-> FALSE]

\* the message of the block error: the joined labels between the bytes of
\* the fixed prefix and of the closing bracket
blockedMessage(blockedCategories) ==
    << 229, 134, 133, 229, 174, 185, 229, 174, 161, 230, 160, 184,
       230, 156, 170, 233, 128, 154, 232, 191, 135, 239, 188, 136 >>
    \o Join(blockedCategories) \o << 239, 188, 137 >>

NoWebhookContext == [parent |-> "none", timeout |-> 0, cancelled |-> FALSE]

ErrPromptBlocked(status) == ApiError("prompt_blocked", status, TRUE, FALSE)

\* EnforceChatModeration on entry for the request req, with the moderation
\* group set, moderationChannelID and the channel store as given; the
\* other fields are the details collected, the result of shouldRunModeration,
\* the providers called, the response and the slice extracted from it, the
\* sorted slice, the error returned with its message, MODERATION_WEBHOOK_URL
\* as read, the webhook task and its context
NewMod(req, moderationGroupSet, channelID, store) ==
    [pc |-> "new", req |-> req, moderationGroupSet |-> moderationGroupSet,
     channelID |-> channelID, store |-> store, cancelled |-> FALSE,
     details |-> collectModerationDetails(req), run |-> FALSE, keyErr |-> "nil",
     key |-> << >>, tried |-> << >>,
     response |-> [err |-> "not called", Results |-> << >>], triggered |-> << >>,
     blockedCategories |-> << >>, verdict |-> NoApiError, message |-> << >>,
     webhookURL |-> << >>, webhook |-> "none", webhookCtx |-> NoWebhookContext]

\* EnforceChatModeration up to its return, or to the call of the provider
EnforceChatModeration ==
    /\ mod.pc = "new"
    /\ IF ~shouldRunModeration(mod.moderationGroupSet, mod.details, mod.req.relayMode,
                               mod.req.relayFormat)
       THEN mod' = [mod EXCEPT !.pc = "done", !.verdict = NoApiError]
       ELSE \E k \in {getModerationAPIKey(mod.channelID, mod.store)} :
               IF k.err # "nil"
               THEN mod' = [mod EXCEPT !.pc = "done", !.run = TRUE, !.channelID = k.channelID,
                                       !.keyErr = k.err,
                                       !.verdict = ErrPromptBlocked(
                                           IF k.err = gormErrRecordNotFound THEN 503 ELSE 500)]
               ELSE mod' = [mod EXCEPT !.pc = "calling", !.run = TRUE,
                                       !.channelID = k.channelID, !.key = k.key]
    /\ UNCHANGED << doc, now, ctx, pool, billing, last, lock, th, serial, pin, pout, wallet, sel, registry, auto, probe >>

\* callMistralModeration returns resp; EnforceChatModeration up to its
\* return, reportModerationWebhook included
ProviderResponds(resp, webhookURL, marshalled) ==
    /\ mod.pc = "calling"
    /\ mod.cancelled <=> resp.err = "context canceled"
    /\ \E m \in {[mod EXCEPT !.pc = "done", !.tried = Append(@, "mistral"), !.response = resp]} :
          IF resp.err # "nil"
          THEN mod' = [m EXCEPT !.verdict = ErrPromptBlocked(502)]
          ELSE \E triggered \in extractTriggeredCategories(resp) :
                  IF Len(triggered) = 0
                  THEN mod' = [m EXCEPT !.verdict = NoApiError]
                  ELSE \E blockedCategories \in {sortStrings(triggered)} :
                          mod' = [m EXCEPT
                             !.triggered = triggered,
                             !.blockedCategories = blockedCategories,
                             !.webhookURL = webhookURL,
                             !.webhook = IF TrimSpace(webhookURL) = << >> \/ ~marshalled
                                         THEN "none" ELSE "queued",
                             !.webhookCtx = IF TrimSpace(webhookURL) = << >> \/ ~marshalled
                                            THEN NoWebhookContext
                                            ELSE webhookContext(mod.cancelled),
                             !.message = blockedMessage(blockedCategories),
                             !.verdict = ErrPromptBlocked(400)]
    /\ UNCHANGED << doc, now, ctx, pool, billing, last, lock, th, serial, pin, pout, wallet, sel, registry, auto, probe >>

\* the inbound request's context is cancelled
ClientDisconnects ==
    /\ mod.pc # "idle"
    /\ ~mod.cancelled
    /\ mod' = [mod EXCEPT !.cancelled = TRUE,
                          !.webhookCtx = IF @.parent = "request"
                                         THEN [@ EXCEPT !.cancelled = TRUE] ELSE @]
    /\ UNCHANGED << doc, now, ctx, pool, billing, last, lock, th, serial, pin, pout, wallet, sel, registry, auto, probe >>

\* the webhook task runs to its end: every outcome is logged at most
WebhookTask(outcome) ==
    /\ mod.webhook = "queued"
    /\ mod.webhookCtx.cancelled => outcome = "request failed"
    /\ mod' = [mod EXCEPT !.webhook = outcome]
    /\ UNCHANGED << doc, now, ctx, pool, billing, last, lock, th, serial, pin, pout, wallet, sel, registry, auto, probe >>

WebhookOutcomes == {"delivered", "request failed", "deadline exceeded", "status 500"}

\* MODERATION_WEBHOOK_URL: unset, blank, set
WebhookURLs == { << >>, << 32 >>, << 104 >> }

ModerationRequests ==
    [UserID : {1, 2},
     Group : { << >>, << 118 >>, << 32, 118 >>, << 119 >> },
     meta : BOOLEAN,
     CombineText : { << 32 >>, << 120 >> },
     LastUserMessage : { << >>, << 117 >> },
     RequestBody : { << 10 >>, << 98 >> },
     relayMode : {RelayModeUnknown, RelayModeChatCompletions, RelayModeCompletions,
                  RelayModeResponses, RelayModeEmbeddings},
     relayFormat : {RelayFormatOpenAI, RelayFormatClaude}]

InitModeration ==
    /\ doc = << >>
    /\ now = 1000
    /\ ctx = [c \in Ctx |-> NewCtx]
    /\ pool = [c \in Ctx |-> << >>]
    /\ billing = 0
    /\ last = NoCall
    /\ lock = "none"
    /\ th = [t \in Threads |-> IdleThread]
    /\ serial = doc
    /\ wallet = NoWallet
    /\ pin = [items |-> << >>, nowSec |-> 0]
    /\ pout = NoResult
    /\ sel = NoSel
    /\ registry = NoRegistry
    /\ auto = NoAuto
    /\ probe = NoProbe
    /\ mod \in { NewMod(req, groupSet, channelID, store) :
                    req \in ModerationRequests,
                    groupSet \in { {}, { << 118 >> } },
                    channelID \in {0, 1, 2},
                    store \in ModerationStores }

NextModeration ==
    \/ EnforceChatModeration
    \/ \E resp \in ModerationResponses, url \in WebhookURLs, marshalled \in BOOLEAN :
          ProviderResponds(resp, url, marshalled)
    \/ ClientDisconnects
    \/ \E outcome \in WebhookOutcomes : WebhookTask(outcome)

SpecModeration == InitModeration /\ [][NextModeration]_vars

(***************************************************************************)
(* SpecKeyCache: successive calls of getModerationAPIKey on the process's  *)
(* moderationChannelID while the channel table is reconfigured.            *)
(***************************************************************************)
MaxKeyCalls == 3

\* the goroutines that may be inside getModerationAPIKey at once
KeyCallers == {1, 2}

\* a goroutine that is not inside getModerationAPIKey
NoKeyCall == [pc |-> "idle", id |-> 0, channel |-> NilModerationChannel]

\* no call yet: moderationChannelID is 0
NewKeyCache(store) ==
    [pc |-> "keys", channelID |-> 0, store |-> store, calls |-> 0,
     \* the locals of the goroutines inside getModerationAPIKey
     callers |-> [g \in KeyCallers |-> NoKeyCall],
     \* history: the last step, and of the last call that returned the id it
     \* loaded, the branch it returned from and what it returned
     op |-> "none", used |-> 0, from |-> "none", key |-> << >>, err |-> "not called"]

\* the return of a call: its locals are gone, the history has its result
KeyReturned(g, from, key) ==
    [mod EXCEPT !.callers[g] = NoKeyCall, !.op = "return", !.used = mod.callers[g].id,
                !.from = from, !.key = key,
                !.err = IF key # << >> THEN "nil" ELSE errModerationKeyEmpty]

\* getModerationAPIKey: id := moderationChannelID.Load()
GetModerationAPIKey(g) ==
    /\ mod.pc = "keys"
    /\ mod.calls < MaxKeyCalls
    /\ mod.callers[g] = NoKeyCall
    /\ \A h \in KeyCallers : mod.callers[h] = NoKeyCall => g <= h
    /\ mod' = [mod EXCEPT !.calls = @ + 1, !.op = "load",
                          !.callers[g] = [pc |-> IF mod.channelID > 0 THEN "cached" ELSE "byName",
                                          id |-> mod.channelID,
                                          channel |-> NilModerationChannel]]
    /\ UNCHANGED << doc, now, ctx, pool, billing, last, lock, th, serial, pin, pout, wallet, sel, registry, auto, probe >>

\* model.CacheGetChannel(int(id)) and, when it finds the channel, the return
\* of its first key or of the error that the key is empty
KeyCacheGetChannel(g) ==
    /\ mod.pc = "keys"
    /\ mod.callers[g].pc = "cached"
    /\ \E r \in {CacheGetChannel(mod.store, mod.callers[g].id)} :
          IF r.err = "nil"
          THEN mod' = KeyReturned(g, "cached", firstChannelKey(r.channel))
          ELSE mod' = [mod EXCEPT !.callers[g].pc = "reset", !.op = "miss"]
    /\ UNCHANGED << doc, now, ctx, pool, billing, last, lock, th, serial, pin, pout, wallet, sel, registry, auto, probe >>

\* moderationChannelID.Store(0)
KeyStoreZero(g) ==
    /\ mod.pc = "keys"
    /\ mod.callers[g].pc = "reset"
    /\ mod' = [mod EXCEPT !.channelID = 0, !.callers[g].pc = "byName", !.op = "reset"]
    /\ UNCHANGED << doc, now, ctx, pool, billing, last, lock, th, serial, pin, pout, wallet, sel, registry, auto, probe >>

\* model.GetFirstChannelByName(moderationChannelName) and the return of its
\* error
KeyGetFirstChannelByName(g) ==
    /\ mod.pc = "keys"
    /\ mod.callers[g].pc = "byName"
    /\ \E r \in {GetFirstChannelByName(mod.store)} :
          IF r.err # "nil"
          THEN mod' = [KeyReturned(g, "byName", << >>) EXCEPT !.err = r.err]
          ELSE mod' = [mod EXCEPT !.callers[g].pc = "store", !.callers[g].channel = r.channel,
                                  !.op = "found"]
    /\ UNCHANGED << doc, now, ctx, pool, billing, last, lock, th, serial, pin, pout, wallet, sel, registry, auto, probe >>

\* moderationChannelID.Store(int64(channel.Id)) and the return of the
\* channel's first key or of the error that the key is empty
KeyStoreID(g) ==
    /\ mod.pc = "keys"
    /\ mod.callers[g].pc = "store"
    /\ mod' = [KeyReturned(g, "stored", firstChannelKey(mod.callers[g].channel))
                 EXCEPT !.channelID = mod.callers[g].channel.Id]
    /\ UNCHANGED << doc, now, ctx, pool, billing, last, lock, th, serial, pin, pout, wallet, sel, registry, auto, probe >>

\* an administrator edits, replaces or removes the channel named
\* "moderation-key"
ChannelReconfigured(store) ==
    /\ mod.pc = "keys"
    /\ store # mod.store
    /\ mod' = [mod EXCEPT !.store = store, !.op = "reconfigured"]
    /\ UNCHANGED << doc, now, ctx, pool, billing, last, lock, th, serial, pin, pout, wallet, sel, registry, auto, probe >>

InitKeyCache ==
    /\ doc = << >>
    /\ now = 1000
    /\ ctx = [c \in Ctx |-> NewCtx]
    /\ pool = [c \in Ctx |-> << >>]
    /\ billing = 0
    /\ last = NoCall
    /\ lock = "none"
    /\ th = [t \in Threads |-> IdleThread]
    /\ serial = doc
    /\ wallet = NoWallet
    /\ pin = [items |-> << >>, nowSec |-> 0]
    /\ pout = NoResult
    /\ sel = NoSel
    /\ registry = NoRegistry
    /\ auto = NoAuto
    /\ probe = NoProbe
    /\ \E store \in ModerationStores : mod = NewKeyCache(store)

NextKeyCache ==
    \/ \E g \in KeyCallers : GetModerationAPIKey(g)
    \/ \E g \in KeyCallers : KeyCacheGetChannel(g)
    \/ \E g \in KeyCallers : KeyStoreZero(g)
    \/ \E g \in KeyCallers : KeyGetFirstChannelByName(g)
    \/ \E g \in KeyCallers : KeyStoreID(g)
    \/ \E store \in ModerationStores : ChannelReconfigured(store)

SpecKeyCache == InitKeyCache /\ [][NextKeyCache]_vars

(***************************************************************************)
(* SpecStorage: PreConsumeUserSubscriptionQuota with the failures of its   *)
(* database transaction, applied to a stored document, a user id, a clock  *)
(* reading and an amount drawn from bounded sets.                          *)
(***************************************************************************)
\* where the transaction fails: nowhere, at the locking read (First or
\* parseSubscriptionData), at the Update, at the commit
StorageFaults == {"none", "read", "write", "commit"}

errDatabase == "database error"

\* PreConsumeUserSubscriptionQuota with the fault of its transaction:
\* selectionToken is assigned inside the transaction before the Update, and
\* is returned together with the transaction's error
PreConsumeUserSubscriptionQuotaStored(items, userID, nowSec, amount, fault) ==
    LET r == PreConsumeUserSubscriptionQuota(items, userID, nowSec, amount)
    IN IF userID <= 0 \/ amount < 0 THEN r
       ELSE IF fault = "read"
       THEN [err |-> errDatabase, token |-> EmptyToken, write |-> FALSE, items |-> items]
       ELSE IF r.err # "nil" THEN r
       ELSE IF (fault = "write" /\ r.write) \/ fault = "commit"
       THEN [err |-> errDatabase, token |-> r.token, write |-> FALSE, items |-> items]
       ELSE r

\* the documents of AdmitDocs, and those with one entitlement withdrawn
StoredDocs ==
    AdmitDocs \cup { Withdraw(d, i) : d \in InitDocs, i \in 1..3 }

InitStorage ==
    /\ LedgerInit
    /\ wallet = NoWallet
    /\ sel = NoSel
    /\ registry = NoRegistry
    /\ auto = NoAuto
    /\ probe = NoProbe
    /\ mod = NoMod
    /\ pin \in [items : StoredDocs, userID : {0, 1}, nowSec : Instants, amount : Amounts,
                fault : StorageFaults]
    /\ pout = NoResult

PreConsumeStored ==
    /\ ~pout.applied
    /\ \E r \in {PreConsumeUserSubscriptionQuotaStored(pin.items, pin.userID, pin.nowSec,
                                                       pin.amount, pin.fault)} :
          pout' = [pre |-> r, stored |-> Persist(pin.items, r), applied |-> TRUE]
    /\ UNCHANGED << doc, now, ctx, pool, billing, last, lock, th, serial, pin, wallet, sel, registry, auto, probe, mod >>

NextStorage == PreConsumeStored

SpecStorage == InitStorage /\ [][NextStorage]_vars

(***************************************************************************)
(* SpecReuse: SpecAdmit with a caller that writes the RelayInfo of a       *)
(* request again after ReturnPreConsumedQuota has returned, while the task *)
(* it queued has not run.                                                  *)
(***************************************************************************)
\* the handler assigns relayInfo.FinalPreConsumedQuota after Return returned
RelayInfoReused(c, quota) ==
    /\ ctx[c].returns > 0
    /\ pool[c] # << >> \/ wallet.tasks > 0
    /\ quota # ctx[c].FinalPreConsumedQuota
    /\ ctx' = [ctx EXCEPT ![c].FinalPreConsumedQuota = quota]
    /\ UNCHANGED << doc, now, pool, billing, last, lock, th, serial, pin, pout, wallet, sel, registry, auto, probe, mod >>

NextReuse ==
    \/ \E c \in Followed : enforceSubscriptionQuotaOrAbort(c)
    \/ \E c \in Followed, a \in Amounts : PreConsumeQuota(c, a)
    \/ \E c \in Followed, a \in 0..MaxAmount, f \in Faults : PreConsumeQuotaWallet(c, a, f)
    \/ \E c \in Followed : WalletPreConsumeTokenQuota(c)
    \/ \E c \in Followed : WalletDecreaseUserQuota(c)
    \/ \E c \in Followed : ReturnPreConsumedQuota(c)
    \/ \E c \in Followed, q \in 1..MaxAmount : RelayInfoReused(c, q)
    \/ \E c \in Followed : Reversal(c)
    \/ \E c \in Followed, failed \in BOOLEAN : WalletReversal(c, failed)

SpecReuse == InitAdmit /\ [][NextReuse]_vars

(***************************************************************************)
(* Properties of the ledger                                                *)
(***************************************************************************)
\* the document the debit of the PreConsume call was taken from
Scanned(call) == resetAndPruneSubscriptionData(call.pre, call.nowSec).items

\* eligibility as the specification words it
Eligible(item, amount) ==
    /\ item.Status = "deployed"
    /\ IF amount = 0
       THEN item.Limit5H.Available > 0 /\ item.Limit7D.Available > 0
       ELSE item.Limit5H.Available >= amount /\ item.Limit7D.Available >= amount

PreConsumed == last.op = "pre" /\ last.err = "nil"

Debited(item, amount) ==
    [item EXCEPT !.Limit5H.Available = @ - amount, !.Limit7D.Available = @ - amount]

\* positions of the items of the entitlement sid
Positions(items, sid) == { i \in 1..Len(items) : items[i].SubscriptionID = sid }

SameExcept(post, pre, keep) ==
    /\ Len(post) = Len(pre)
    /\ \A j \in 1..Len(pre) : j \notin keep => post[j] = pre[j]

\* C1: a successful PreConsume debits both windows of exactly one item of the
\* document it scans (the stored document after reset-and-prune), the first
\* usable one in stored order, by amount; every item before and after it,
\* usable or not, is written back as it was scanned.
C1_FirstFit ==
    PreConsumed =>
        LET mid == Scanned(last)
            k   == last.token.i + 1
        IN /\ k \in 1..Len(mid)
           /\ isUsableSubscriptionItem(mid[k], last.nowSec, last.amount)
           /\ \A j \in 1..(k - 1) : ~isUsableSubscriptionItem(mid[j], last.nowSec, last.amount)
           /\ last.post[k] = Debited(mid[k], last.amount)
           /\ SameExcept(last.post, mid, {k})

\* a PreConsume that passed over an unusable item, debited the next one and
\* left a later usable item alone
C1_Witness ==
    /\ PreConsumed
    /\ last.amount > 0
    /\ last.token.i = 1
    /\ \E j \in 3..Len(last.post) :
          isUsableSubscriptionItem(Scanned(last)[j], last.nowSec, last.amount)

\* C2: the item PreConsume(amount) debits is deployed and had both windows'
\* available >= amount (both > 0 when amount = 0), so neither window of it is
\* below zero afterwards; no item before it that PreConsume skipped met that
\* condition with now inside its duration.
C2_EligibleBothWindows ==
    PreConsumed =>
        LET mid == Scanned(last)
            k   == last.token.i + 1
        IN /\ Eligible(mid[k], last.amount)
           /\ last.post[k].Limit5H.Available >= 0
           /\ last.post[k].Limit7D.Available >= 0
           /\ \A j \in 1..(k - 1) :
                 ~(Eligible(mid[j], last.amount) /\ durationContains(mid[j].Duration, last.nowSec))

\* a PreConsume that skipped a deployed item with enough quota in its 5h
\* window only
C2_Witness ==
    /\ PreConsumed
    /\ last.amount > 0
    /\ \E j \in 1..last.token.i :
          LET item == Scanned(last)[j]
          IN /\ item.Status = "deployed"
             /\ item.Limit5H.Available >= last.amount
             /\ item.Limit7D.Available < last.amount
             /\ item.Limit7D.Available > 0

\* the last call refunded the whole reservation of its request through the
\* request's token
Refunded ==
    /\ last.op = "adj"
    /\ last.ctx \in Ctx
    /\ ctx[last.ctx].stage = "reserved"
    /\ last.token = ctx[last.ctx].token
    /\ last.amount = -ctx[last.ctx].FinalPreConsumedQuota

\* C3: when AdjustBySelectionToken(user, t, -N) is the first ledger call after
\* the PreConsume(user, now, N) that returned t, it succeeds, both windows of
\* the selected item hold the available the debit was taken from (clipped at
\* total), and no other item is changed.
C3_RoundTrip ==
    (Refunded /\ last.fresh) =>
        LET c   == ctx[last.ctx]
            pos == Positions(last.post, c.selected)
        IN /\ last.err = "nil"
           /\ Cardinality(pos) = 1
           /\ \A k \in pos :
                 /\ last.post[k].Limit5H.Available = Min(c.before5h, last.post[k].Limit5H.Total)
                 /\ last.post[k].Limit7D.Available = Min(c.before7d, last.post[k].Limit7D.Total)
           /\ SameExcept(last.post, last.pre, pos)

\* a refund of N > 0 right after the PreConsume that reserved it
C3_Witness ==
    /\ Refunded
    /\ last.fresh
    /\ last.amount < 0
    /\ last.post # last.pre

\* the last call adjusted through the token PreConsume gave its request
AdjustedByToken ==
    /\ last.op = "adj"
    /\ last.ctx \in Ctx
    /\ last.amount # 0
    /\ last.token = ctx[last.ctx].token
    /\ last.token # EmptyToken

\* C4: an adjustment through a selection token changes no item but the one
\* PreConsume selected, wherever that item now stands in the document; when
\* the selected item is no longer in the document it fails with the
\* item-not-found error and the document is unchanged.
C4_TokenResolves ==
    AdjustedByToken =>
        LET pos == Positions(last.pre, ctx[last.ctx].selected)
        IN IF pos = {}
           THEN last.err = ErrItemNotFound /\ last.post = last.pre
           ELSE /\ last.err # ErrItemNotFound
                /\ SameExcept(last.post, last.pre, pos)
                /\ last.err = "nil" =>
                      \E k \in pos : last.post[k].Limit5H.Available # last.pre[k].Limit5H.Available
                                        \/ last.pre[k].Limit5H.Available = last.pre[k].Limit5H.Total

\* an adjustment applied to the selected item although the token's hint index
\* no longer points at it
C4_Witness ==
    /\ AdjustedByToken
    /\ last.err = "nil"
    /\ last.post # last.pre
    /\ last.token.i + 1 \notin Positions(last.pre, ctx[last.ctx].selected)

\* C5: after a refund (delta < 0), also a repeated one, neither window of the
\* adjusted item has available above its total.
C5_RefundClipped ==
    (AdjustedByToken /\ last.amount < 0 /\ last.err = "nil") =>
        \A k \in Positions(last.post, ctx[last.ctx].selected) :
            /\ last.post[k].Limit5H.Available <= last.post[k].Limit5H.Total
            /\ last.post[k].Limit7D.Available <= last.post[k].Limit7D.Total

\* a second reversal of one reservation, whose refund would have passed total
C5_Witness ==
    /\ AdjustedByToken
    /\ last.amount < 0
    /\ last.err = "nil"
    /\ ctx[last.ctx].reversals >= 2
    /\ \E k \in Positions(last.pre, ctx[last.ctx].selected) :
          last.pre[k].Limit5H.Available - last.amount > last.pre[k].Limit5H.Total

\* C6: an extra consumption (delta > 0) that would leave either window of the
\* item below zero fails with the exhaustion error and changes nothing.
C6_ExtraConsumeRejected ==
    (AdjustedByToken /\ last.amount > 0) =>
        \A k \in Positions(last.pre, ctx[last.ctx].selected) :
            (\/ last.pre[k].Limit5H.Available - last.amount < 0
             \/ last.pre[k].Limit7D.Available - last.amount < 0)
            => (last.err = ErrSubscriptionQuotaExhausted /\ last.post = last.pre)

\* an extra consumption rejected because of the 7d window alone
C6_Witness ==
    /\ AdjustedByToken
    /\ last.amount > 0
    /\ last.err = ErrSubscriptionQuotaExhausted
    /\ \E k \in Positions(last.pre, ctx[last.ctx].selected) :
          /\ last.pre[k].Limit5H.Available - last.amount >= 0
          /\ last.pre[k].Limit7D.Available - last.amount < 0

\* C7: whatever the number of Return(ctx) calls of a request, at most one
\* reversal of its reservation is applied to the ledger.
C7_ReturnedAtMostOnce == \A c \in Ctx : ctx[c].reversals <= 1

\* C8: under any interleaving of PreConsume, AdjustBySelectionToken and the
\* reset sweep of one user, the stored document is the one obtained by running
\* the operations one after the other on the stored document, in the order
\* in which they wrote (no debit, refund or reset is lost to a stale read).
C8_Serialized == doc = serial

(***************************************************************************)
(* resetAndPruneSubscriptionData on its own: SpecReset draws a document    *)
(* and a clock reading and applies the function once.                      *)
(***************************************************************************)
\* second and millisecond reset stamps: unset, on a period boundary of the
\* clock readings below, between two boundaries, in the future
ResetStamps ==
    { W(-5), W(0), W(1000), W(19000), W(50000), W(1210600),
      [hi |-> 1699982000, lo |-> 0], [hi |-> 1700000000, lo |-> 500] }

ClockReadings == { 1000, 19000, 50000, 605800, 1700000000, 1700018000 }

ResetLimits == { Limit(2, a, r) : a \in 1..2, r \in ResetStamps }

\* the empty document and three items of every mix of statuses, their
\* windows not yet due at the earliest clock reading
PruneDocs ==
    LET item(sid, status) == Item(sid, status, Limit(2, 1, W(1000)), Limit(2, 1, W(50000)),
                                  W(500), W(90000))
        statuses == {"deployed", "deploying", "disabled"}
    IN { << >> } \cup { << item("a", x), item("b", y), item("c", z) >> :
                           x \in statuses, y \in statuses, z \in statuses }

\* one deployed item, alone or behind an item that is not deployed, and the
\* documents of PruneDocs
ResetDocs ==
    LET deployed == { Item("s1", "deployed", l5, l7, W(500), W(90000)) :
                          l5 \in ResetLimits, l7 \in ResetLimits }
        leading  == Item("s0", "disabled", Limit(2, 1, W(1000)), Limit(2, 1, W(1000)),
                         W(500), W(90000))
    IN { << item >> : item \in deployed } \cup { << leading, item >> : item \in deployed }
       \cup PruneDocs

InitReset ==
    /\ LedgerInit
    /\ wallet = NoWallet
    /\ sel = NoSel
    /\ registry = NoRegistry
    /\ auto = NoAuto
    /\ probe = NoProbe
    /\ mod = NoMod
    /\ pin \in [items : ResetDocs, nowSec : ClockReadings]
    /\ pout = NoResult

ResetAndPrune ==
    /\ ~pout.applied
    /\ \E r \in {resetAndPruneSubscriptionData(pin.items, pin.nowSec)} :
          pout' = [items |-> r.items, changed |-> r.changed, applied |-> TRUE]
    /\ UNCHANGED << doc, now, ctx, pool, billing, last, lock, th, serial, pin, wallet, sel, registry, auto, probe, mod >>

NextReset == ResetAndPrune

SpecReset == InitReset /\ [][NextReset]_vars

\* the items of the input that are kept, in order
DeployedOf(items) == SelectSeq(items, LAMBDA item : item.Status = "deployed")

\* the window's interval in the unit of its reset stamp
IntervalOf(resetAt, intervalSec) ==
    IF WGt(resetAt, MsThreshold) THEN [hi |-> intervalSec, lo |-> 0] ELSE W(intervalSec)

\* old window and clock reading -> what C9 requires of the new window
WindowReset(old, new, nowSec) ==
    LET nowU == nowInSameUnit(old.ResetAt, nowSec)
    IN IF WGt(nowU, old.ResetAt)
       THEN /\ new.Total = old.Total
            /\ new.Available = new.Total
            /\ WGt(new.ResetAt, nowU)
       ELSE new = old

\* C9: after ResetAndPrune(now), a window whose resetAt was before now (now in
\* the unit of the stamp) has available = total and a resetAt after now; a
\* window whose resetAt was at or after now is unchanged.
C9_ResetWindows ==
    pout.applied =>
        LET kept == DeployedOf(pin.items)
        IN /\ Len(pout.items) = Len(kept)
           /\ \A j \in 1..Len(kept) :
                 /\ WindowReset(kept[j].Limit5H, pout.items[j].Limit5H, pin.nowSec)
                 /\ WindowReset(kept[j].Limit7D, pout.items[j].Limit7D, pin.nowSec)

\* a partly used 5h window reset while the partly used 7d window of the same
\* item, whose resetAt equals now, is left alone
C9_Witness ==
    /\ pout.applied
    /\ Len(pout.items) = 1
    /\ \E j \in 1..Len(pin.items) :
          /\ pin.items[j].Status = "deployed"
          /\ pin.items[j].Limit5H.Available < pin.items[j].Limit5H.Total
          /\ pin.items[j].Limit5H.ResetAt = W(1000)
          /\ pin.items[j].Limit7D.Available < pin.items[j].Limit7D.Total
          /\ pin.items[j].Limit7D.ResetAt = W(pin.nowSec)
          /\ pin.nowSec > 1000
          /\ pout.items[1].Limit5H.Available = pout.items[1].Limit5H.Total
          /\ pout.items[1].Limit7D = pin.items[j].Limit7D

\* old and new reset stamp of a window that was reset -> what C10 requires
Advanced(old, new, nowSec, intervalSec) ==
    LET nowU     == nowInSameUnit(old, nowSec)
        interval == IntervalOf(old, intervalSec)
        d        == WSub(new, old)
    IN IF WLe(old, W(0))
       THEN new = WAdd(nowU, interval)
       ELSE /\ WGt(new, nowU)
            /\ WLe(WSub(new, interval), nowU)
            /\ WMulInt(interval, WDiv(d, interval)) = d

\* C10: the resetAt of a window that is reset becomes old + k * interval for
\* the smallest k that puts it strictly after now (interval 18000 s for 5h,
\* 604800 s for 7d), also when now - old is a whole number of intervals; an
\* old resetAt <= 0 becomes now + interval.
C10_AdvanceResetAt ==
    pout.applied =>
        LET kept == DeployedOf(pin.items)
        IN \A j \in 1..Len(kept) :
              /\ WGt(nowInSameUnit(kept[j].Limit5H.ResetAt, pin.nowSec), kept[j].Limit5H.ResetAt)
                 => Advanced(kept[j].Limit5H.ResetAt, pout.items[j].Limit5H.ResetAt,
                             pin.nowSec, 18000)
              /\ WGt(nowInSameUnit(kept[j].Limit7D.ResetAt, pin.nowSec), kept[j].Limit7D.ResetAt)
                 => Advanced(kept[j].Limit7D.ResetAt, pout.items[j].Limit7D.ResetAt,
                             pin.nowSec, 604800)

\* resetAt 1000 at now 50000 became 55000 in the 5h window, and the unset
\* resetAt of the 7d window of the same item became now + 604800
C10_Witness ==
    /\ pout.applied
    /\ pin.nowSec = 50000
    /\ \E j \in 1..Len(pout.items) :
          /\ DeployedOf(pin.items)[j].Limit5H.ResetAt = W(1000)
          /\ pout.items[j].Limit5H.ResetAt = W(55000)
          /\ DeployedOf(pin.items)[j].Limit7D.ResetAt = W(0)
          /\ pout.items[j].Limit7D.ResetAt = W(654800)

\* the subscription ids of the items, in order
IdsOf(items) == [j \in 1..Len(items) |-> items[j].SubscriptionID]

\* C11: ResetAndPrune returns the items whose status is "deployed", all of
\* them and in their original relative order, drops every item of another
\* status, and reports changed whenever it dropped an item.
C11_PruneKeepsDeployedInOrder ==
    pout.applied =>
        /\ \A j \in 1..Len(pout.items) : pout.items[j].Status = "deployed"
        /\ IdsOf(pout.items) = IdsOf(SelectSeq(pin.items, LAMBDA item : item.Status = "deployed"))
        /\ Len(pout.items) < Len(pin.items) => pout.changed

\* a deploying item dropped from between two deployed items that are kept in
\* order, at a clock reading at which no window is reset
C11_Witness ==
    /\ pout.applied
    /\ Len(pin.items) = 3
    /\ pin.items[1].Status = "deployed"
    /\ pin.items[2].Status = "deploying"
    /\ pin.items[3].Status = "deployed"
    /\ pin.nowSec = 1000
    /\ IdsOf(pout.items) = << "a", "c" >>
    /\ pout.changed

(***************************************************************************)
(* durationContains on its own: SpecDuration draws the two bounds of an    *)
(* item's duration, a clock reading and an amount, and applies             *)
(* durationContains to the duration and PreConsume to the document made of *)
(* that item.                                                              *)
(***************************************************************************)
\* unset, seconds, 10^12 and 10^12 + 1, and milliseconds around and at the
\* clock reading 1700000000
DurationStamps ==
    { W(0), W(500), W(50000), W(1699999990), W(1700000010),
      [hi |-> 1000000000, lo |-> 0], [hi |-> 1000000000, lo |-> 1],
      [hi |-> 1699999999, lo |-> 0], [hi |-> 1700000000, lo |-> 0],
      [hi |-> 1700000001, lo |-> 0] }

DurationDocs ==
    { << Item("s1", "deployed", Limit(2, 2, W(2000000000)), Limit(2, 2, W(2000000000)),
              startAt, endAt) >> : startAt \in DurationStamps, endAt \in DurationStamps }

InitDuration ==
    /\ LedgerInit
    /\ wallet = NoWallet
    /\ sel = NoSel
    /\ registry = NoRegistry
    /\ auto = NoAuto
    /\ probe = NoProbe
    /\ mod = NoMod
    /\ pin \in [items : DurationDocs, nowSec : ClockReadings, amount : 0..1]
    /\ pout = NoResult

DurationContains ==
    /\ ~pout.applied
    /\ \E r \in {PreConsumeUserSubscriptionQuota(pin.items, 1, pin.nowSec, pin.amount)} :
          pout' = [contains |-> durationContains(pin.items[1].Duration, pin.nowSec),
                   pre |-> r, applied |-> TRUE]
    /\ UNCHANGED << doc, now, ctx, pool, billing, last, lock, th, serial, pin, wallet, sel, registry, auto, probe, mod >>

NextDuration == DurationContains

SpecDuration == InitDuration /\ [][NextDuration]_vars

\* C12: durationContains is false whenever the start or the end of the
\* duration is 0, at every clock reading, and PreConsume then does not select
\* the item: it fails with the exhaustion error and writes nothing.
C12_UnsetBoundNeverContains ==
    (pout.applied /\ (pin.items[1].Duration.StartAt = W(0) \/ pin.items[1].Duration.EndAt = W(0)))
    => /\ ~pout.contains
       /\ pout.pre.err = ErrSubscriptionQuotaExhausted
       /\ pout.pre.token = EmptyToken
       /\ ~pout.pre.write

\* start 0 and end = now + 10, the item otherwise usable
C12_Witness ==
    /\ pout.applied
    /\ pin.nowSec = 1700000000
    /\ pin.items[1].Duration.StartAt = W(0)
    /\ pin.items[1].Duration.EndAt = W(1700000010)
    /\ pin.amount = 1
    /\ ~pout.contains

\* the clock reading in the unit C13 gives the stamp: milliseconds above 10^12
NowFor(stamp, nowSec) ==
    IF WGt(stamp, [hi |-> 1000000000, lo |-> 0]) THEN [hi |-> nowSec, lo |-> 0] ELSE W(nowSec)

\* C13: each bound of a duration is compared with now in the bound's own unit,
\* now * 1000 for a bound above 10^12 and now for a bound up to 10^12:
\* durationContains holds exactly when both bounds are set, start <= now and
\* now <= end in those units.
C13_UnitPerBound ==
    pout.applied =>
        LET d == pin.items[1].Duration
        IN pout.contains <=>
              /\ d.StartAt # W(0)
              /\ d.EndAt # W(0)
              /\ WLe(d.StartAt, NowFor(d.StartAt, pin.nowSec))
              /\ WLe(NowFor(d.EndAt, pin.nowSec), d.EndAt)

\* start = now * 1000 - 1000 and end = now * 1000 + 1000 contain now
C13_Witness ==
    /\ pout.applied
    /\ pin.nowSec = 1700000000
    /\ pin.items[1].Duration.StartAt = [hi |-> 1699999999, lo |-> 0]
    /\ pin.items[1].Duration.EndAt = [hi |-> 1700000001, lo |-> 0]
    /\ pout.contains
    /\ pout.pre.err = "nil"

(***************************************************************************)
(* Properties of PreConsumeQuota and ReturnPreConsumedQuota (SpecAdmit)    *)
(***************************************************************************)
\* the path the specification assigns to a request
SubscriptionPath(relayInfo) ==
    /\ relayInfo.UserGroup = "subscription"
    /\ relayInfo.IsClaudeBetaQuery \/ relayInfo.RelayMode = RelayModeResponses

\* C14: a request is admitted on the subscription path exactly when its user
\* group is "subscription" and it is the Claude beta messages endpoint or its
\* relay mode is Responses, and on the wallet path otherwise; a nil relay
\* info is on the wallet path; ReturnPreConsumedQuota takes the path
\* PreConsumeQuota took.
C14_PathPredicate ==
    /\ ~ShouldUseSubscriptionQuota(NilRelayInfo)
    /\ \A c \in Ctx :
          /\ ctx[c].admission.path = "subscription" => SubscriptionPath(ctx[c])
          /\ ctx[c].admission.path = "wallet" => ~SubscriptionPath(ctx[c])
          /\ ctx[c].retPath # "none" => ctx[c].retPath = ctx[c].admission.path

\* a subscription-group request on another endpoint reserved from the wallet
\* and returned its reservation on the wallet path
C14_Witness ==
    \E c \in Ctx :
       /\ ctx[c].UserGroup = "subscription"
       /\ ~ctx[c].IsClaudeBetaQuery
       /\ ctx[c].RelayMode # RelayModeResponses
       /\ ctx[c].admission.path = "wallet"
       /\ ctx[c].retPath = "wallet"

\* the step in which PreConsumeQuota returns for request c on the
\* subscription path
SubscriptionPreConsumeStep(c) ==
    /\ ctx[c].stage = "new"
    /\ ctx'[c].admission.path = "subscription"

\* C15: PreConsumeQuota on the subscription path stores the ledger's
\* selection token and sets FinalPreConsumedQuota to the requested amount
\* when the ledger succeeds, returns the 403 skip-retry error when the
\* ledger reports exhaustion and the 500 update-data error on any other
\* ledger failure, and leaves the wallet balance and the token counter as
\* they were.
C15_SubscriptionPreConsume ==
    [][\A c \in Ctx :
          SubscriptionPreConsumeStep(c) =>
             /\ wallet' = wallet
             /\ last'.op = "pre" /\ last'.ctx = c
             /\ IF last'.err = "nil"
                THEN /\ ctx'[c].token = last'.token
                     /\ ctx'[c].FinalPreConsumedQuota = ctx'[c].admission.requested
                     /\ ctx'[c].apiErr = NoApiError
                ELSE /\ ctx'[c].FinalPreConsumedQuota = ctx[c].FinalPreConsumedQuota
                     /\ ctx'[c].token = ctx[c].token
                     /\ IF last'.err = ErrSubscriptionQuotaExhausted
                        THEN /\ ctx'[c].apiErr.code = "subscription_quota_exhausted"
                             /\ ctx'[c].apiErr.status = 403
                             /\ ctx'[c].apiErr.skipRetry
                        ELSE /\ ctx'[c].apiErr.code = "update_data_error"
                             /\ ctx'[c].apiErr.status = 500]_vars

\* the ledger reported exhaustion to a subscription-path request
C15_Witness ==
    \E c \in Ctx :
       /\ ctx[c].admission.path = "subscription"
       /\ last.op = "pre" /\ last.ctx = c
       /\ last.err = ErrSubscriptionQuotaExhausted
       /\ ctx[c].apiErr = ErrSubscriptionExhausted403

\* C16: on the wallet path, when the balance read is at most 0 or the
\* balance minus the requested amount is negative, PreConsumeQuota returns
\* the 403 insufficient-user-quota error, debits neither the balance nor the
\* token counter and leaves FinalPreConsumedQuota as it was.
C16_InsufficientBalance ==
    \A c \in Ctx :
       ( /\ ctx[c].admission.path = "wallet"
         /\ ctx[c].admission.fault # "query"
         /\ \/ ctx[c].admission.UserQuota <= 0
            \/ ctx[c].admission.UserQuota - ctx[c].admission.requested < 0 )
       => /\ ctx[c].apiErr = ErrInsufficientUserQuota403
          /\ ctx[c].admission.debitedUser = 0
          /\ ctx[c].admission.debitedToken = 0
          /\ ctx[c].FinalPreConsumedQuota = 0

\* a request for more than a positive balance was refused
C16_Witness ==
    \E c \in Ctx :
       /\ ctx[c].admission.path = "wallet"
       /\ ctx[c].admission.UserQuota > 0
       /\ ctx[c].admission.requested > ctx[c].admission.UserQuota
       /\ ctx[c].apiErr = ErrInsufficientUserQuota403

\* the wallet-path request c is trusted: its balance exceeds the trust
\* threshold and its token is unlimited or has quota above the threshold
Trusted(c) ==
    /\ ctx[c].admission.UserQuota > wallet.TrustQuota
    /\ ctx[c].TokenUnlimited \/ ctx[c].admission.TokenQuota > wallet.TrustQuota

\* C17: a wallet-path PreConsumeQuota that returns without error debited
\* nothing and recorded FinalPreConsumedQuota = 0 when the request is
\* trusted, and debited the requested amount from the balance and from the
\* token counter and recorded it otherwise; the recorded value is 0 or the
\* requested amount and equals the amount debited.
C17_TrustThreshold ==
    \A c \in Ctx :
       (ctx[c].admission.path = "wallet" /\ ctx[c].stage = "reserved" /\ ctx[c].apiErr = NoApiError)
       => /\ IF Trusted(c)
             THEN /\ ctx[c].FinalPreConsumedQuota = 0
                  /\ ctx[c].admission.debitedUser = 0
                  /\ ctx[c].admission.debitedToken = 0
             ELSE /\ ctx[c].FinalPreConsumedQuota = ctx[c].admission.requested
                  /\ ctx[c].admission.debitedUser = ctx[c].admission.requested
                  /\ ctx[c].admission.debitedToken = ctx[c].admission.requested
          /\ ctx[c].FinalPreConsumedQuota \in {0, ctx[c].admission.requested}
          /\ ctx[c].FinalPreConsumedQuota = ctx[c].admission.debitedUser
          /\ ctx[c].FinalPreConsumedQuota = ctx[c].admission.debitedToken

\* a balance above the threshold with a limited token at or below it: the
\* requested amount was debited
C17_Witness ==
    \E c \in Ctx :
       /\ ctx[c].admission.path = "wallet"
       /\ ctx[c].stage = "reserved"
       /\ ctx[c].apiErr = NoApiError
       /\ ctx[c].admission.UserQuota > wallet.TrustQuota
       /\ ~ctx[c].TokenUnlimited
       /\ ctx[c].admission.TokenQuota <= wallet.TrustQuota
       /\ ctx[c].admission.requested > 0
       /\ ctx[c].FinalPreConsumedQuota = ctx[c].admission.requested
       /\ ctx[c].admission.debitedUser = ctx[c].admission.requested

\* C18: a wallet-path PreConsumeQuota that returns an error has reduced
\* neither the token counter nor the wallet balance.
C18_AllOrNothing ==
    \A c \in Ctx :
       (ctx[c].admission.path = "wallet" /\ ctx[c].apiErr # NoApiError)
       => /\ ctx[c].admission.debitedToken = 0
          /\ ctx[c].admission.debitedUser = 0

\* the steps of ReturnPreConsumedQuota and of the tasks it queues
ReturnStep(c) == ctx'[c].returns = ctx[c].returns + 1
SubscriptionReversalStep(c) == pool[c] # << >> /\ pool'[c] = Tail(pool[c])
WalletReversalStep(c) == ctx[c].retPath = "wallet" /\ wallet'.tasks = wallet.tasks - 1

\* C19: ReturnPreConsumedQuota changes neither the ledger nor the balances
\* itself; it queues nothing when FinalPreConsumedQuota is 0, and otherwise
\* queues one reversal on the request's path.  The subscription reversal
\* applies -FinalPreConsumedQuota through the token PreConsumeQuota stored,
\* the wallet reversal gives FinalPreConsumedQuota back to the balance and
\* the token counter; a reversal that fails changes nothing of the request.
C19_ReturnReverses ==
    [][\A c \in Ctx :
          /\ ReturnStep(c) =>
                /\ doc' = doc
                /\ wallet'.UserQuota = wallet.UserQuota
                /\ wallet'.TokenQuota = wallet.TokenQuota
                /\ ctx'[c].stage = ctx[c].stage
                /\ ctx'[c].apiErr = ctx[c].apiErr
                /\ ctx'[c].FinalPreConsumedQuota = ctx[c].FinalPreConsumedQuota
                /\ IF ctx[c].FinalPreConsumedQuota = 0
                   THEN pool' = pool /\ wallet' = wallet
                   ELSE IF SubscriptionPath(ctx[c])
                   THEN pool'[c] = Append(pool[c], ctx[c].token) /\ wallet' = wallet
                   ELSE pool' = pool /\ wallet'.tasks = wallet.tasks + 1
          /\ SubscriptionReversalStep(c) =>
                /\ last'.op = "adj"
                /\ last'.amount = -ctx[c].FinalPreConsumedQuota
                /\ last'.token = ctx[c].token
                /\ wallet' = wallet
                /\ ctx'[c].stage = ctx[c].stage
                /\ ctx'[c].apiErr = ctx[c].apiErr
                /\ last'.err # "nil" => doc' = doc
          /\ WalletReversalStep(c) =>
                /\ doc' = doc
                /\ ctx'[c].stage = ctx[c].stage
                /\ ctx'[c].apiErr = ctx[c].apiErr
                /\ \/ /\ wallet'.UserQuota = wallet.UserQuota + ctx[c].FinalPreConsumedQuota
                      /\ wallet'.TokenQuota = wallet.TokenQuota + ctx[c].FinalPreConsumedQuota
                   \/ /\ wallet'.UserQuota = wallet.UserQuota
                      /\ wallet'.TokenQuota = wallet.TokenQuota
                      /\ ctx'[c] = ctx[c]]_vars

\* a wallet reservation was returned once and its reversal restored the
\* balance and the token counter
C19_Witness ==
    \E c \in Ctx :
       /\ ctx[c].admission.path = "wallet"
       /\ ctx[c].FinalPreConsumedQuota > 0
       /\ ctx[c].returns = 1
       /\ ctx[c].reversals = 1
       /\ wallet.tasks = 0
       /\ wallet.UserQuota = ctx[c].admission.UserQuota
       /\ wallet.TokenQuota = ctx[c].admission.TokenQuota

(***************************************************************************)
(* Properties of selectChannelWithTemporarySkip (SpecSelect)               *)
(***************************************************************************)
\* the satisfier was called at most 8 times; while the loop runs each call
\* so far found a disabled channel; a selection in which every returned
\* channel was reported disabled ended after exactly 8 calls with the
\* all-candidates-temporarily-disabled sentinel and no channel
SelectionBounded ==
    /\ sel.calls <= maxTemporaryDisableSelectionAttempts
    /\ sel.pc = "loop" =>
          /\ sel.calls = sel.attempts
          /\ sel.attempts < maxTemporaryDisableSelectionAttempts
    /\ (sel.pc = "done" /\ sel.allDisabled) =>
          /\ sel.calls = maxTemporaryDisableSelectionAttempts
          /\ sel.err = errAllCandidateChannelsTemporarilyDisabled
          /\ sel.channel = NilChannel

\* C20: selectChannelWithTemporarySkip returns, whatever the satisfier
\* answers, after at most 8 calls of the satisfier; when every channel the
\* satisfier returned was reported disabled by the registry, it returns the
\* all-candidates-temporarily-disabled sentinel after exactly 8 calls.
C20_SelectionTerminates == []SelectionBounded /\ <>(sel.pc = "done")

\* eight channels in a row were reported disabled and the sentinel returned
C20_Witness ==
    /\ sel.pc = "done"
    /\ sel.allDisabled
    /\ sel.calls = 8
    /\ Cardinality(sel.excluded) = 8
    /\ sel.err = errAllCandidateChannelsTemporarilyDisabled

\* C21: a channel the function returns was checked against the registry in
\* that iteration and reported not disabled, and was never found disabled
\* in this selection; a channel found disabled is added to the exclusion
\* set, which only grows; each satisfier call is given every id found
\* disabled before it.
C21_DisabledSkipped ==
    [][sel'.calls = sel.calls + 1 =>
          /\ sel.excluded \subseteq sel'.excluded
          /\ sel'.found \subseteq sel'.excluded
          /\ sel'.given = sel.excluded
          /\ sel.found \subseteq sel'.given
          /\ (sel'.pc = "done" /\ sel'.channel # NilChannel) =>
                /\ sel'.channel = sel'.answer.channel
                /\ ~GetTemporaryDisabledChannelInfo(registry, sel'.channel, now).ok
                /\ sel'.channel \notin sel'.found
          /\ ( /\ sel'.answer.channel # NilChannel
               /\ GetTemporaryDisabledChannelInfo(registry, sel'.answer.channel, now).ok ) =>
                /\ sel'.answer.channel \in sel'.excluded
                /\ sel'.answer.channel \in sel'.found
                /\ sel'.channel = NilChannel]_vars

\* after two channels were found disabled the satisfier was given both and
\* the third channel, which is not disabled, was returned
C21_Witness ==
    /\ sel.pc = "done"
    /\ sel.channel # NilChannel
    /\ sel.err = "nil"
    /\ Cardinality(sel.found) = 2
    /\ sel.given = sel.found
    /\ sel.channel \notin sel.excluded

\* C22: when the satisfier reports that no channel survives the filtering,
\* the function returns the all-candidates-temporarily-disabled sentinel and
\* no channel at once; when the satisfier returns nil without error, it
\* returns (nil, nil); any other error of the satisfier is returned as it is.
\* None of the three is followed by another call of the satisfier.
C22_ExhaustionOrAbsence ==
    /\ sel.answer.err = ErrAllCandidateChannelsFiltered =>
          /\ sel.pc = "done"
          /\ sel.channel = NilChannel
          /\ sel.err = errAllCandidateChannelsTemporarilyDisabled
    /\ (sel.answer.err = "nil" /\ sel.answer.channel = NilChannel) =>
          /\ sel.pc = "done"
          /\ sel.channel = NilChannel
          /\ sel.err = "nil"
    /\ sel.answer.err \notin {"not called", "nil", ErrAllCandidateChannelsFiltered} =>
          /\ sel.pc = "done"
          /\ sel.channel = sel.answer.channel
          /\ sel.err = sel.answer.err

\* after three disabled channels the satisfier failed with a database error,
\* which was returned
C22_Witness ==
    /\ sel.pc = "done"
    /\ sel.attempts = 3
    /\ sel.answer.err = "database error"
    /\ sel.err = "database error"

(***************************************************************************)
(* Properties of CacheGetRandomSatisfiedChannel (SpecAuto)                 *)
(***************************************************************************)
\* the result of one group's selection lets the next group be tried
TriesNext(t) ==
    \/ t.err = errAllCandidateChannelsTemporarilyDisabled
    \/ t.err = "nil" /\ t.channel = NilChannel

\* a call in auto mode with auto groups enabled has returned
AutoDone == auto.pc = "done" /\ auto.group = "auto" /\ auto.enabled

\* C23: in auto mode the permitted auto-groups are tried in their order; a
\* group whose selection yields the disabled sentinel (or no channel) is
\* followed by the next group; any other error ends the call at that group
\* and is returned unchanged; the first group that yields a channel ends the
\* call with that channel; when all groups were tried and at least one
\* yielded the sentinel and none a channel, the sentinel is returned.
C23_AutoGroupsInOrder ==
    AutoDone =>
       LET n == Len(auto.tried) IN
       /\ n <= Len(auto.groups)
       /\ \A k \in 1..n : auto.tried[k].group = auto.groups[k]
       /\ \A k \in 1..(n - 1) : TriesNext(auto.tried[k])
       /\ IF n > 0 /\ ~TriesNext(auto.tried[n])
          THEN IF auto.tried[n].err # "nil"
               THEN /\ auto.ret.err = auto.tried[n].err
                    /\ auto.ret.channel = NilChannel
               ELSE /\ auto.ret.channel = auto.tried[n].channel
                    /\ auto.ret.err = "nil"
          ELSE /\ n = Len(auto.groups)
               /\ auto.ret.channel = NilChannel
               /\ IF \E k \in 1..n : auto.tried[k].err = errAllCandidateChannelsTemporarilyDisabled
                  THEN auto.ret.err = errAllCandidateChannelsTemporarilyDisabled
                  ELSE auto.ret.err = "nil"

\* the first group yielded the sentinel and the second one a channel
C23_Witness ==
    /\ AutoDone
    /\ Len(auto.tried) = 2
    /\ auto.tried[1].err = errAllCandidateChannelsTemporarilyDisabled
    /\ auto.tried[2].channel # NilChannel
    /\ auto.ret.channel = auto.tried[2].channel
    /\ auto.ret.err = "nil"

\* C24: when a call in auto mode returns a channel, the group it returns and
\* the auto_group key are the auto-group whose selection yielded the
\* channel; a call for an explicit group returns the requested group.
C24_EffectiveGroup ==
    auto.pc = "done" =>
       IF auto.group = "auto"
       THEN auto.ret.channel # NilChannel =>
               /\ auto.tried # << >>
               /\ auto.tried[Len(auto.tried)].channel = auto.ret.channel
               /\ auto.ret.group = auto.tried[Len(auto.tried)].group
               /\ auto.autoGroupKey = auto.tried[Len(auto.tried)].group
               /\ auto.ret.group = auto.groups[Len(auto.tried)]
       ELSE auto.ret.group = auto.group

\* the second auto-group yielded the returned channel
C24_Witness ==
    /\ auto.pc = "done"
    /\ auto.group = "auto"
    /\ auto.ret.channel # NilChannel
    /\ auto.ret.group = "g2"
    /\ auto.autoGroupKey = "g2"

(***************************************************************************)
(* Properties of the temporary disable registry (SpecRegistry)             *)
(***************************************************************************)
\* a call of TemporarilyDisableChannel takes its clock reading in this step
DisableEnterStep == probe'.op = "disable-enter" /\ probe' # probe

\* a call of TemporarilyDisableChannel writes its entry and returns in this
\* step
DisableStep == probe'.op = "disable" /\ (probe' # probe \/ registry' # registry)

\* a call of either revision of GetTemporaryDisabledChannelInfo returns in
\* this step
InfoStep == probe'.op \in {"info", "info-delete"} /\ (probe' # probe \/ registry' # registry)

\* the entry of the call is the one computed from the clock reading the
\* call took on entry: now + duration, with 300 seconds for a duration of 0
\* or less
EnteredWith ==
    DisableEnterStep =>
       LET d == probe'.duration
       IN /\ probe'.expireAt = now + (IF d <= 0 THEN 300 ELSE d)
          /\ registry' = registry
          /\ \E g \in Writers :
                /\ probe.writes[g] = NoWrite
                /\ probe'.writes[g].channelID = probe'.channelID
                /\ probe'.writes[g].expireAt = probe'.expireAt

\* the write stores that entry for its channel, whatever entry the channel
\* had, and leaves the entries of the other channels as they were
StoredAsEntered ==
    DisableStep =>
       LET id == probe'.channelID
       IN /\ registry'[id].present
          /\ registry'[id].expireAt = probe'.expireAt
          /\ \E g \in Writers :
                /\ probe.writes[g].channelID = id
                /\ probe.writes[g].expireAt = registry'[id].expireAt
                /\ probe'.writes[g] = NoWrite
          /\ \A other \in Channels \ {id} : registry'[other] = registry[other]

\* C25 as stated: TemporarilyDisableChannel stores for its channel an entry
\* expiring at now + duration, with 300 seconds for a duration of 0 or less,
\* whatever entry the channel had, leaves the entries of the other channels
\* as they were, and a read of the channel right after it always reports it
\* disabled.
C25_DisabledRightAfter ==
    [][/\ EnteredWith
       /\ StoredAsEntered
       /\ DisableStep =>
             GetTemporaryDisabledChannelInfo(registry', probe'.channelID, now).ok]_vars

\* C25, amended: TemporarilyDisableChannel stores for its channel an entry
\* expiring at now + duration, where now is the clock reading the call took
\* on entry, with 300 seconds for a duration of 0 or less, whatever entry
\* the channel had, leaves the entries of the other channels as they were,
\* and a read of the channel right after it reports it disabled unless the
\* clock has passed that expireAt by then.
C25_DisableStores ==
    [][/\ EnteredWith
       /\ StoredAsEntered
       /\ DisableStep =>
             (GetTemporaryDisabledChannelInfo(registry', probe'.channelID, now).ok
                <=> now <= probe'.expireAt)]_vars

\* a call with duration 0 replaced the entry of a channel while another
\* channel had an entry: the last call, and a read now reports it disabled
C25_Witness ==
    /\ probe.op = "disable"
    /\ probe.duration = 300
    /\ probe.entry.present
    /\ registry[probe.channelID].expireAt = probe.expireAt
    /\ probe.entry.expireAt # registry[probe.channelID].expireAt
    /\ GetTemporaryDisabledChannelInfo(registry, probe.channelID, now).ok
    /\ \E other \in Channels \ {probe.channelID} : registry[other].present

\* C26: a read reports a channel disabled only while now < expireAt of the
\* entry it read; a read of an entry that is not before its expireAt removes
\* the entry and reports the channel absent; a read of a channel without
\* entry reports it absent; a read removes no entry that is still before its
\* expireAt.
C26_DisabledOnlyBeforeExpiry ==
    [][InfoStep =>
          LET id == probe'.channelID
              entry == probe'.entry
          IN /\ probe'.ok => (entry.present /\ now < entry.expireAt)
             /\ (entry.present /\ ~(now < entry.expireAt)) =>
                   (~probe'.ok /\ registry'[id] = NoEntry)
             /\ ~entry.present => ~probe'.ok
             /\ (registry[id].present /\ registry'[id] = NoEntry) =>
                   ~(now < registry[id].expireAt)]_vars

(***************************************************************************)
(* Properties of EnforceChatModeration (SpecModeration)                    *)
(***************************************************************************)
\* the request's group, without surrounding white space, is in the
\* moderation-enabled set
GroupEnabled == TrimSpace(mod.details.Group) \in mod.moderationGroupSet

\* the text collected for inspection is empty or white space
TextBlank == \A i \in 1..Len(mod.details.CombinedText) : IsSpace(mod.details.CombinedText[i])

\* the endpoint is chat capable
ChatEndpoint ==
    \/ mod.req.relayMode \in {RelayModeChatCompletions, RelayModeCompletions, RelayModeResponses}
    \/ mod.req.relayMode = RelayModeUnknown /\ mod.req.relayFormat = RelayFormatClaude

\* C27: once EnforceChatModeration has passed its gate, moderation ran
\* exactly when the user is not the exempt user 1, the group is moderation
\* enabled, the inspected text is not blank and the endpoint is chat
\* completions, completions, responses, or unset with the Claude format;
\* when it did not run the call returned nil and no key was looked up and no
\* provider called.
C27_Applicability ==
    mod.pc \in {"calling", "done"} =>
       /\ mod.run <=> (mod.req.UserID # 1 /\ GroupEnabled /\ ~TextBlank /\ ChatEndpoint)
       /\ mod.req.UserID = 1 => ~mod.run
       /\ ~GroupEnabled => ~mod.run
       /\ TextBlank => ~mod.run
       /\ ~mod.run =>
             /\ mod.pc = "done"
             /\ mod.verdict = NoApiError
             /\ mod.tried = << >>
             /\ mod.key = << >> /\ mod.keyErr = "nil"

\* user 1 in an enabled group with text on a chat endpoint was not moderated
C27_Witness ==
    /\ mod.pc = "done"
    /\ mod.req.UserID = 1
    /\ GroupEnabled /\ ~TextBlank /\ ChatEndpoint
    /\ ~mod.run
    /\ mod.verdict = NoApiError

\* the primary provider failed: no key for it, or its call failed
PrimaryFailed ==
    \/ mod.keyErr # "nil"
    \/ mod.response.err \notin {"nil", "not called"}

\* C28: when the primary provider failed, a secondary provider was called
\* before EnforceChatModeration returned, and the provider-unavailable error
\* is returned only when both failed.
C28_Fallback ==
    (mod.pc = "done" /\ mod.run /\ PrimaryFailed) =>
       /\ Len(mod.tried) >= 2 \/ (mod.keyErr # "nil" /\ Len(mod.tried) >= 1)
       /\ mod.verdict # NoApiError => mod.tried[Len(mod.tried)] # "mistral"

\* the labels the response flags
Flagged ==
    IF mod.response.Results = << >> THEN {}
    ELSE { c \in DOMAIN mod.response.Results[1] : mod.response.Results[1][c] }

\* C29: when the provider responded, EnforceChatModeration returned nil if
\* no label is flagged, and otherwise the skip-retry 400 prompt-blocked
\* error whose message is the flagged labels, each once, in byte-wise
\* increasing order, joined by ", ".
C29_Outcome ==
    (mod.pc = "done" /\ mod.response.err = "nil") =>
       IF Flagged = {}
       THEN mod.verdict = NoApiError
       ELSE /\ mod.verdict.code = "prompt_blocked"
            /\ mod.verdict.status = 400
            /\ mod.verdict.skipRetry
            /\ Len(mod.blockedCategories) = Cardinality(Flagged)
            /\ { mod.blockedCategories[i] : i \in 1..Len(mod.blockedCategories) } = Flagged
            /\ \A i, j \in 1..Len(mod.blockedCategories) :
                  i < j => LexLess(mod.blockedCategories[i], mod.blockedCategories[j])
            /\ Len(mod.message) = 24 + Len(Join(mod.blockedCategories)) + 3
            /\ SubSeq(mod.message, 25, Len(mod.message) - 3) = Join(mod.blockedCategories)

\* the map was visited in the order "b", "ab", "a" and the message names
\* "a, ab, b"
C29_Witness ==
    /\ mod.pc = "done"
    /\ mod.triggered = << << 98 >>, << 97, 98 >>, << 97 >> >>
    /\ SubSeq(mod.message, 25, 32) = << 97, 44, 32, 97, 98, 44, 32, 98 >>
    /\ Len(mod.message) = 35
    /\ mod.verdict.status = 400

\* C30: the webhook task is queued in the step in which
\* EnforceChatModeration returns the 400 error, on a context derived from
\* the background context with a timeout of 5 seconds; the error returned
\* is the same with and without a webhook URL, and no outcome of the task
\* changes it.
C30_WebhookDetached ==
    [][/\ (mod.pc = "calling" /\ mod'.triggered # << >>) =>
             /\ mod'.pc = "done"
             /\ mod'.verdict = ErrPromptBlocked(400)
             /\ TrimSpace(mod'.webhookURL) = << >> => mod'.webhook = "none"
             /\ mod'.webhook \in {"none", "queued"}
       /\ mod'.webhook = "queued" =>
             /\ mod'.webhookCtx.parent = "background"
             /\ mod'.webhookCtx.timeout = 5
             /\ ~mod'.webhookCtx.cancelled
       /\ (mod.webhook = "queued" /\ mod'.webhook # "queued") =>
             /\ mod'.webhook \in WebhookOutcomes
             /\ mod'.verdict = mod.verdict
             /\ mod'.message = mod.message
             /\ mod'.pc = mod.pc]_vars

\* the report was delivered after the client had disconnected
C30_Witness ==
    /\ mod.cancelled
    /\ mod.webhook = "delivered"
    /\ mod.verdict = ErrPromptBlocked(400)

(***************************************************************************)
(* Locking and the cleanup loop of the registry (SpecRegistry)             *)
(***************************************************************************)
\* C31: a read that finds no entry, or an entry that has not expired, holds
\* only the read lock of temporaryDisabledChannelsMu, and every step that
\* changes the map holds its write lock.
C31_LockDiscipline ==
    [][/\ (InfoStep /\ probe'.op = "info"
             /\ (~probe'.entry.present \/ ~expired(probe'.entry, now)))
          => probe'.mu = "RLock"
       /\ registry' # registry => probe'.mu = "Lock"]_vars

\* a tick of the cleanup loop runs in this step
CleanupStep == probe'.op = "cleanup" /\ (probe' # probe \/ registry' # registry)

\* C32: the first TemporarilyDisableChannel starts the cleanup loop and no
\* later step starts another; a tick of the loop deletes every entry whose
\* expireAt is before now and leaves every other entry, with its expireAt
\* and reason, as it was.
C32_CleanupOnceAndExact ==
    [][/\ DisableEnterStep => probe'.loops = 1
       /\ ~DisableEnterStep => probe'.loops = probe.loops
       /\ CleanupStep =>
             /\ probe'.nowSec = probe.tick
             /\ \A id \in Channels :
                   registry'[id] = IF registry[id].present /\ registry[id].expireAt < probe.tick
                                   THEN NoEntry ELSE registry[id]]_vars

\* after calls for both channels, a tick that read the clock at 1301 swept
\* later: it deleted the entry of one channel, which expired at 1300, and
\* kept the other's, which expires at 1401
C32_Witness ==
    /\ probe.op = "cleanup"
    /\ probe.loops = 1
    /\ probe.nowSec = 1301
    /\ \E a, b \in RegistryChannels :
          /\ probe.swept = {a}
          /\ registry[a] = NoEntry
          /\ registry[b] = DisabledEntry(1401, 256)

\* C35: a step of a read or of the cleanup loop, taken after
\* TemporarilyDisableChannel stored an entry, removes the entry of a channel
\* only when that entry's expireAt is before now: the entry a completed
\* TemporarilyDisableChannel stored stays until it expires.
C35_DisableNotLost ==
    [][(InfoStep \/ CleanupStep) =>
          \A id \in Channels :
             (registry[id].present /\ ~expired(registry[id], now)) =>
                registry'[id] = registry[id]]_vars

(***************************************************************************)
(* The bounds of the duration window (SpecDuration)                        *)
(***************************************************************************)
\* C33: an item whose duration starts at now, or ends at now, in the unit
\* of that bound, is not contained and PreConsume does not select it.
C33_StrictlyWithin ==
    (/\ pout.applied
     /\ LET d == pin.items[1].Duration
        IN \/ (d.StartAt # W(0) /\ NowFor(d.StartAt, pin.nowSec) = d.StartAt)
           \/ (d.EndAt # W(0) /\ NowFor(d.EndAt, pin.nowSec) = d.EndAt))
    => /\ ~pout.contains
       /\ pout.pre.err = ErrSubscriptionQuotaExhausted

(***************************************************************************)
(* The cached id of the moderation channel (SpecKeyCache)                  *)
(***************************************************************************)
\* a call of getModerationAPIKey returns in this step
KeyStep == mod.pc = "keys" /\ mod'.op = "return" /\ mod' # mod

\* C34: a call that finds the channel by name caches its id; a call that
\* loaded a cached id whose channel has a key returns that key and leaves
\* the id as it is; a call that loaded a cached id and returns an error
\* does not leave that id cached.
C34_CacheInvalidated ==
    [][KeyStep =>
          /\ mod'.from = "stored"
                => \E g \in KeyCallers : /\ mod.callers[g].pc = "store"
                                         /\ mod'.callers[g] = NoKeyCall
                                         /\ mod'.channelID = mod.callers[g].channel.Id
          /\ (mod'.from = "cached" /\ mod'.err = "nil")
                => /\ mod'.key = firstChannelKey(CacheGetChannel(mod.store, mod'.used).channel)
                   /\ mod'.channelID = mod.channelID
          /\ (mod'.used > 0 /\ mod'.err # "nil")
                => mod'.channelID # mod'.used]_vars

(***************************************************************************)
(* Failures of PreConsumeUserSubscriptionQuota (SpecStorage)               *)
(***************************************************************************)
\* C37: a call of PreConsumeUserSubscriptionQuota that returns an error
\* returns the empty token and leaves the stored document as it was.
C37_FailureLeavesNothing ==
    (pout.applied /\ pout.pre.err # "nil")
    => /\ pout.pre.token = EmptyToken
       /\ pout.stored = pin.items

(***************************************************************************)
(* The bounds of the ledger (Spec)                                         *)
(***************************************************************************)
\* both windows of every item hold 0 <= available <= total
WithinBounds(items) ==
    \A i \in 1..Len(items) :
       /\ 0 <= items[i].Limit5H.Available
       /\ items[i].Limit5H.Available <= items[i].Limit5H.Total
       /\ 0 <= items[i].Limit7D.Available
       /\ items[i].Limit7D.Available <= items[i].Limit7D.Total

\* C36: from a document in which both windows of every item hold
\* 0 <= available <= total, every document that PreConsume, adjustments
\* through issued tokens (of either sign) and the reset sweep store holds
\* 0 <= available <= total in both windows of every item.
C36_LedgerBounds == WithinBounds(doc)

\* a reservation was refunded twice, the second refund passing total, and
\* the sweep then reset and rewrote the document
C36_Witness ==
    /\ last.op = "sweep"
    /\ last.post # last.pre
    /\ doc = last.post
    /\ \E c \in Ctx : ctx[c].stage = "reserved" /\ ctx[c].FinalPreConsumedQuota > 0
                      /\ ctx[c].reversals >= 2

(***************************************************************************)
(* The frame of AdjustUserSubscriptionQuotaBySelectionToken (Spec)         *)
(***************************************************************************)
\* the item with the available of both windows taken from another item
WithAvailableOf(item, other) ==
    [item EXCEPT !.Limit5H.Available = other.Limit5H.Available,
                 !.Limit7D.Available = other.Limit7D.Available]

\* C38: a call of AdjustUserSubscriptionQuotaBySelectionToken stores a
\* document with the same items in the same order; the only item that can
\* differ is the one the token resolves to, and it differs in the available
\* of its windows only; with delta 0 the call succeeds and stores nothing,
\* whether or not the token resolves.
C38_AdjustFrame ==
    (last.op = "adj" /\ last.token # EmptyToken) =>
        LET f == findSubscriptionItemIndexByToken(last.pre, last.token)
        IN /\ Len(last.post) = Len(last.pre)
           /\ \A j \in 1..Len(last.pre) :
                 /\ WithAvailableOf(last.post[j], last.pre[j]) = last.pre[j]
                 /\ last.post[j] # last.pre[j] => (f.ok /\ j = f.idx + 1)
           /\ last.amount = 0 => (last.err = "nil" /\ last.post = last.pre)

\* an adjustment changed the selected item of a document holding an item
\* that is not deployed and a window whose reset is due
C38_Witness ==
    /\ last.op = "adj"
    /\ last.err = "nil"
    /\ last.post # last.pre
    /\ \E j \in 1..Len(last.post) : last.post[j].Status # "deployed"
    /\ resetAndPruneSubscriptionData(last.post, last.nowSec).items # last.post
    /\ \E j \in 1..Len(last.post) :
          WLt(last.post[j].Limit5H.ResetAt, W(last.nowSec))

(***************************************************************************)
(* A failed PreConsumeQuota and the Return that follows (SpecAdmit)        *)
(***************************************************************************)
\* PreConsumeQuota of the request returns an error in this step
PreConsumeFailsStep(c) == ctx[c].stage \in {"new", "token", "user"} /\ ctx'[c].stage = "failed"

\* C40: a PreConsumeQuota that returns an error, on either path, leaves
\* FinalPreConsumedQuota of its request as it was; a
\* ReturnPreConsumedQuota of a request whose PreConsumeQuota failed queues
\* no reversal and changes neither the ledger nor the balances.
C40_FailedPreConsumeReturnsNothing ==
    [][\A c \in Ctx :
          /\ PreConsumeFailsStep(c) =>
                /\ ctx'[c].apiErr # NoApiError
                /\ ctx'[c].FinalPreConsumedQuota = ctx[c].FinalPreConsumedQuota
          /\ (ReturnStep(c) /\ ctx[c].stage = "failed") =>
                /\ pool' = pool
                /\ wallet' = wallet
                /\ doc' = doc]_vars

\* a wallet request whose debit of the balance failed after the token
\* counter had been debited was returned, and nothing was queued
C40_Witness ==
    \E c \in Ctx :
       /\ ctx[c].stage = "failed"
       /\ ctx[c].admission.path = "wallet"
       /\ ctx[c].admission.debitedToken > 0
       /\ ctx[c].returns = 1
       /\ ctx[c].FinalPreConsumedQuota = 0
       /\ pool[c] = << >>
       /\ wallet.tasks = 0

(***************************************************************************)
(* The reversal task and a reused RelayInfo (SpecReuse)                    *)
(***************************************************************************)
\* C39: the reversal task of a request refunds what PreConsumeQuota
\* reserved for the request: on the subscription path the amount requested,
\* through the request's token; on the wallet path the amount debited from
\* the balance, to the balance and to the token counter.
C39_RefundsWhatWasReserved ==
    [][\A c \in Ctx :
          /\ SubscriptionReversalStep(c) =>
                /\ last'.amount = -ctx[c].admission.requested
                /\ last'.token = ctx[c].token
          /\ (WalletReversalStep(c) /\ ctx'[c].reversals = ctx[c].reversals + 1) =>
                /\ wallet'.UserQuota = wallet.UserQuota + ctx[c].admission.debitedUser
                /\ wallet'.TokenQuota = wallet.TokenQuota + ctx[c].admission.debitedToken]_vars

=============================================================================
